---- MODULE Spec2Model ----
(***************************************************************************)
(* Model of the injektor Resolution Engine (class Container): the provider *)
(* table, the singleton and request caches, the resolution stack, the      *)
(* pending-resolution table and the retry timers that                      *)
(* handleDeferredResolution schedules; and of the Lifecycle Registry       *)
(* (applyLifecycle, cleanupRequest, cleanupTransient, shutdown) with the   *)
(* asynchronous calls suspended at their awaits.                           *)
(***************************************************************************)
EXTENDS Integers, Sequences, FiniteSets, TLC

(* ------------------------------------------------------------------ *)
(* Bounds of the model                                                 *)
(* ------------------------------------------------------------------ *)
\* calls, timer callbacks and class initialisations in one run
MaxSteps == 5
\* steps of one run of the lifecycle specification
MaxLifeSteps == 5
\* steps of one run of the pending-resolution specification
MaxPendingSteps == 8
\* asynchronous calls suspended at the same time
MaxTasks == 2
\* steps of one run of the HTTP specification
MaxHttpSteps == 7
\* steps of one run of the scanner specification: two calls of scanAndRegister
MaxScanSteps == 15
\* steps of one run of the specification of a single resolve call
MaxTermSteps == 18

\* attempts after which handleDeferredResolution escalates
MaxAttempts == 3

(* ------------------------------------------------------------------ *)
(* Tokens, request ids, values, errors                                 *)
(* ------------------------------------------------------------------ *)
Classes == {"A", "B", "C"}
Strings == {"s"}
Tokens == Classes \cup Strings

\* requestId === undefined
NoRid == [src |-> "undefined", n |-> 0]
\* request ids a caller passes to resolve
CallerRids == {[src |-> "caller", n |-> 1]}
\* the n-th id produced by generateRequestId(): unique, never equal to a caller's
generateRequestId(n) == [src |-> "generated", n |-> n]

NoValue == [k |-> "none", id |-> 0]
InstVal(i) == [k |-> "inst", id |-> i]
PromiseVal(p) == [k |-> "promise", id |-> p]
ConstVal(n) == [k |-> "value", id |-> n]

NoErr == [kind |-> "none", tok |-> "-", path |-> <<>>, names |-> {}, tdz |-> FALSE, cause |-> "none"]
NoPending == [attempts |-> 0, lastError |-> NoErr, dependencies |-> <<>>]
NoProvider == [strategy |-> "absent", cls |-> "-", scope |-> "-", val |-> 0]

ClassProvider(c, scope) == [strategy |-> "class", cls |-> c, scope |-> scope, val |-> 0]
ValueProvider(n) == [strategy |-> "value", cls |-> "-", scope |-> "default", val |-> n]
FactoryProvider(scope) == [strategy |-> "factory", cls |-> "-", scope |-> scope, val |-> 0]

VARIABLES
    providers,                \* Container.providers: token -> Provider
    singletons,               \* Container.singletons: token -> instance
    requestInstances,         \* Container.requestInstances: requestId -> (token -> instance)
    pendingResolutions,       \* Container.pendingResolutions: token -> PendingResolution
    resolutionStack,          \* Container.resolutionStack (a Set: insertion ordered)
    enableDeferredResolution, \* Container.enableDeferredResolution
    timers,                   \* callbacks scheduled with setTimeout, in firing order
    promises,                 \* state of each promise handleDeferredResolution returned
    heap,                     \* the objects built so far: class and constructor arguments
    genCount,                 \* number of ids generateRequestId() has produced
    paramtypes,               \* Reflect "design:paramtypes" of each class
    hnames,                   \* tokens whose name contains a text isInitializationError looks for
    ctorFail,                 \* what `new C(...)` does now: "ok", "tdz" (ReferenceError) or "err"
    meta,                     \* metadataRegistry category and declared scope of each class
    ret,                      \* outcome of the last call made on the container
    steps,                    \* number of steps taken so far
    lifecycleRegistry,        \* life-cycle.ts lifecycleRegistry: singleton, transient, request
    arrays,                   \* the arrays created for request buckets, by identity
    tasks,                    \* the async calls suspended at an await
    invoked,                  \* the hooks called during the last step, in order
    stepped,                  \* what the last step did to an async call
    hooks,                    \* what each lifecycle hook of each class does when called
    limit                     \* number of steps this run may take

vars == <<providers, singletons, requestInstances, pendingResolutions, resolutionStack,
          enableDeferredResolution, timers, promises, heap, genCount, paramtypes,
          hnames, ctorFail, meta, ret, steps, lifecycleRegistry, arrays, tasks, invoked,
          stepped, hooks, limit>>

statics == <<paramtypes, hnames, meta, hooks, limit>>

(* ------------------------------------------------------------------ *)
(* Errors: what their message contains                                 *)
(* ------------------------------------------------------------------ *)
\* `names`: the tokens whose name is part of the message; `tdz`: the message is
\* the runtime's own "Cannot access 'X' before initialization"
CircularError(stack, token) ==
    [kind |-> "circular", tok |-> token, path |-> Append(stack, token),
     names |-> {stack[i] : i \in 1..Len(stack)} \cup {token}, tdz |-> FALSE, cause |-> "none"]

generateDependencyErrorDetails(token) ==
    IF token \notin Classes THEN {token}
    ELSE {token} \cup {paramtypes[token][i] : i \in 1..Len(paramtypes[token])}

UnresolvedError(token) ==
    [kind |-> "unresolved", tok |-> token, path |-> <<>>,
     names |-> generateDependencyErrorDetails(token), tdz |-> FALSE, cause |-> "none"]

NoClassError(token) ==
    [kind |-> "noclass", tok |-> token, path |-> <<>>, names |-> {token}, tdz |-> FALSE,
     cause |-> "none"]

ScopeError(token) ==
    [kind |-> "scope", tok |-> token, path |-> <<>>, names |-> {}, tdz |-> FALSE,
     cause |-> "none"]

CtorError(target) ==
    [kind |-> "ctor", tok |-> target, path |-> <<>>, names |-> {},
     tdz |-> (ctorFail[target] = "tdz"), cause |-> "none"]

ExhaustedError(token, lastError) ==
    [kind |-> "exhausted", tok |-> token, path |-> <<>>,
     names |-> {token} \cup lastError.names, tdz |-> lastError.tdz, cause |-> lastError.kind]

isInitializationError(error) ==
    error.tdz \/ (error.names \cap hnames # {})

extractDependencies(token) ==
    IF token \notin Classes THEN <<>> ELSE paramtypes[token]

(* ------------------------------------------------------------------ *)
(* The state a call works on, and the result of a call                 *)
(* ------------------------------------------------------------------ *)
Now ==
    [providers |-> providers, singletons |-> singletons,
     requestInstances |-> requestInstances, pendingResolutions |-> pendingResolutions,
     resolutionStack |-> resolutionStack, heap |-> heap, genCount |-> genCount,
     promises |-> promises, scheduled |-> <<>>]

Return(st, v) == [st |-> st, ok |-> TRUE, val |-> v, err |-> NoErr]
Throw(st, e) == [st |-> st, ok |-> FALSE, val |-> NoValue, err |-> e]

stackHas(stack, token) == \E i \in 1..Len(stack) : stack[i] = token
stackAdd(stack, token) == Append(stack, token)
stackDelete(stack, token) == SelectSeq(stack, LAMBDA x : x # token)

\* register that also drops the cached singleton of the token
register_dropSingleton(st, token, provider) ==
    [st EXCEPT !.providers[token] = provider,
               !.pendingResolutions[token] = NoPending,
               !.singletons[token] = NoValue]

\* register that forgets the pending record of the token
register_keepPending(st, token, provider) ==
    [st EXCEPT !.providers[token] = provider]

register(st, token, provider) ==
    [st EXCEPT !.providers[token] = provider,
               !.pendingResolutions[token] = NoPending]

tryAutoRegister(st, token) ==
    CASE meta[token].cat \in {"service", "controller", "processor"} ->
            [ok |-> TRUE, st |-> register(st, token, ClassProvider(token, meta[token].scope))]
      [] meta[token].cat \in {"configuration", "application"} ->
            [ok |-> TRUE, st |-> register(st, token, ClassProvider(token, "singleton"))]
      [] OTHER -> [ok |-> FALSE, st |-> st]

handleDeferredResolution(st, token, requestId, error) ==
    LET pending == st.pendingResolutions[token] IN
    IF pending # NoPending /\ pending.attempts >= MaxAttempts
    THEN Throw(st, ExhaustedError(token, pending.lastError))
    ELSE LET p == Len(st.promises) + 1
             rec == [attempts |-> pending.attempts + 1, lastError |-> error,
                     dependencies |-> extractDependencies(token)]
             timer == [token |-> token, requestId |-> requestId,
                       attempts |-> pending.attempts, stage |-> 1, promise |-> p]
         IN Return([st EXCEPT !.pendingResolutions[token] = rec,
                              !.promises = Append(@, "pending"),
                              !.scheduled = Append(@, timer)],
                   PromiseVal(p))

newInstance(st, cls, args) ==
    Return([st EXCEPT !.heap = Append(@, [cls |-> cls, args |-> args])],
           InstVal(Len(st.heap) + 1))

RECURSIVE resolve(_, _, _)
RECURSIVE resolveInternal(_, _, _)
RECURSIVE createInstance(_, _, _)
RECURSIVE resolveDeps(_, _, _, _)
RECURSIVE nextDep(_, _, _, _)
RECURSIVE resolveSingleton(_, _, _)
RECURSIVE resolveTransient(_, _, _)
RECURSIVE resolveRequest(_, _, _, _)
RECURSIVE resolveRequestIn(_, _, _, _)

\* this.singletons.set(token, instance); return instance
cacheSingleton(r, token) ==
    IF r.ok THEN Return([r.st EXCEPT !.singletons[token] = r.val], r.val) ELSE r

resolveSingleton(st, token, target) ==
    IF st.singletons[token] # NoValue
    THEN Return(st, st.singletons[token])
    ELSE cacheSingleton(createInstance(st, target, NoRid), token)

\* a transient resolution that keeps what it built, as a singleton does
resolveTransient_cached(st, target, requestId) ==
    resolveSingleton(st, target, target)

resolveTransient(st, target, requestId) ==
    createInstance(st, target, requestId)

\* the sub-map of the request, created when the request has none
getRequestMap(st, requestId) ==
    IF requestId \in DOMAIN st.requestInstances THEN st
    ELSE [st EXCEPT !.requestInstances =
             [r \in DOMAIN @ \cup {requestId} |->
                 IF r = requestId THEN [t \in Tokens |-> NoValue] ELSE @[r]]]

\* requestMap.set(token, instance); return instance
cacheRequest(r, token, requestId) ==
    IF r.ok THEN Return([r.st EXCEPT !.requestInstances[requestId][token] = r.val], r.val)
    ELSE r

resolveRequestIn(st, token, target, requestId) ==
    IF st.requestInstances[requestId][token] # NoValue
    THEN Return(st, st.requestInstances[requestId][token])
    ELSE cacheRequest(createInstance(st, target, requestId), token, requestId)

resolveRequest(st, token, target, requestId) ==
    resolveRequestIn(getRequestMap(st, requestId), token, target, requestId)

\* deps.map((dep) => this.resolve(dep, requestId)): left to right, stops at the first throw
resolveDeps(st, deps, requestId, acc) ==
    IF deps = <<>> THEN Return(st, acc)
    ELSE nextDep(resolve(st, Head(deps), requestId), Tail(deps), requestId, acc)

nextDep(r, rest, requestId, acc) ==
    IF r.ok THEN resolveDeps(r.st, rest, requestId, Append(acc, r.val)) ELSE r

\* new target(...resolvedDeps)
construct(d, target) ==
    IF ~d.ok THEN d
    ELSE IF ctorFail[target] # "ok" THEN Throw(d.st, CtorError(target))
    ELSE newInstance(d.st, target, d.val)

createInstance(st, target, requestId) ==
    construct(resolveDeps(st, paramtypes[target], requestId, <<>>), target)

\* provider.scope ?? "singleton"
scopeOf(provider) ==
    IF provider.scope = "default" THEN "singleton" ELSE provider.scope

resolveInternal(st, token, requestId) ==
    IF st.providers[token] = NoProvider
    THEN IF token \in Classes /\ tryAutoRegister(st, token).ok
         THEN resolveInternal(tryAutoRegister(st, token).st, token, requestId)
         ELSE Throw(st, UnresolvedError(token))
    ELSE IF st.providers[token].strategy = "value"
         THEN Return(st, ConstVal(st.providers[token].val))
    ELSE IF st.providers[token].strategy = "factory" THEN newInstance(st, "factory", <<>>)
    ELSE IF st.providers[token].strategy # "class" THEN Throw(st, NoClassError(token))
    ELSE CASE scopeOf(st.providers[token]) = "singleton" ->
                 resolveSingleton(st, token, st.providers[token].cls)
           [] scopeOf(st.providers[token]) = "transient" ->
                 resolveTransient(st, st.providers[token].cls, requestId)
           [] scopeOf(st.providers[token]) = "request" ->
                 IF requestId # NoRid
                 THEN resolveRequest(st, token, st.providers[token].cls, requestId)
                 ELSE resolveRequest([st EXCEPT !.genCount = @ + 1], token,
                                     st.providers[token].cls,
                                     generateRequestId(st.genCount + 1))
           [] OTHER -> Throw(st, ScopeError(token))

\* a catch block that does not look at enableDeferredResolution
shouldDefer_flagIgnored(error) ==
    isInitializationError(error)

\* the condition of the catch block of resolve
shouldDefer(error) ==
    enableDeferredResolution /\ isInitializationError(error)

\* catch (error) { ... }
resolveCatch(r, token, requestId) ==
    IF r.ok THEN r
    ELSE IF shouldDefer(r.err) THEN handleDeferredResolution(r.st, token, requestId, r.err)
    ELSE r

\* a resolve without its finally block: the token stays on the stack
resolveFinally_keepStack(r, token) == r

\* a resolve that pops the stack on the return path only
resolveFinally_onReturnOnly(r, token) ==
    IF r.ok THEN [r EXCEPT !.st.resolutionStack = stackDelete(@, token)] ELSE r

\* finally { this.resolutionStack.delete(token) }
resolveFinally(r, token) ==
    [r EXCEPT !.st.resolutionStack = stackDelete(@, token)]

resolve(st, token, requestId) ==
    IF stackHas(st.resolutionStack, token)
    THEN Throw(st, CircularError(st.resolutionStack, token))
    ELSE resolveFinally(
             resolveCatch(
                 resolveInternal([st EXCEPT !.resolutionStack = stackAdd(@, token)],
                                 token, requestId),
                 token, requestId),
             token)

(* ------------------------------------------------------------------ *)
(* Timers: setTimeout(..., 50) and the nested setTimeout(..., 100)     *)
(* ------------------------------------------------------------------ *)
\* `timers` is kept in firing order. A 50 ms timer set now fires after every
\* 50 ms timer set earlier, and before or after a 100 ms timer set earlier,
\* depending on how long ago that one was set.
lastShort(ts) ==
    LET S == {i \in 1..Len(ts) : ts[i].stage = 1} IN
    IF S = {} THEN 0 ELSE CHOOSE i \in S : \A j \in S : j <= i

schedulePositions(ts, new) ==
    IF new = <<>> THEN {Len(ts)} ELSE lastShort(ts)..Len(ts)

insertTimers(ts, k, new) ==
    SubSeq(ts, 1, k) \o new \o SubSeq(ts, k + 1, Len(ts))

(* ------------------------------------------------------------------ *)
(* Inputs                                                              *)
(* ------------------------------------------------------------------ *)
Scopes == {"singleton", "transient", "request"}

\* the providers the callers of register pass
RegisterInputs(token) ==
    CASE token = "A" -> {ClassProvider("A", "singleton"), ClassProvider("A", "request")}
      [] token = "B" -> {ClassProvider("B", "default"), ClassProvider("B", "transient")}
      [] token = "C" -> {ClassProvider("C", sc) : sc \in Scopes}
      [] OTHER -> {ValueProvider(1), FactoryProvider("singleton"),
                   ClassProvider("C", "singleton")}

NoMeta == [c \in Classes |-> [cat |-> "none", scope |-> "singleton"]]
AllOk == [c \in Classes |-> "ok"]
Cycle == [c \in Classes |-> CASE c = "A" -> <<"B">> [] c = "B" -> <<"A">> [] OTHER -> <<>>]
Chain == [c \in Classes |-> CASE c = "A" -> <<"B", "C">> [] c = "B" -> <<"C">> [] OTHER -> <<>>]

\* the class declarations a program is made of
Programs ==
    { [paramtypes |-> Cycle, hnames |-> {}, ctorFail |-> AllOk, meta |-> NoMeta],
      [paramtypes |-> Cycle, hnames |-> {"B"}, ctorFail |-> AllOk, meta |-> NoMeta],
      [paramtypes |-> Chain, hnames |-> {}, ctorFail |-> [AllOk EXCEPT !["C"] = "tdz"],
       meta |-> [NoMeta EXCEPT !["C"] = [cat |-> "service", scope |-> "singleton"]]],
      [paramtypes |-> Chain, hnames |-> {"s"}, ctorFail |-> [AllOk EXCEPT !["A"] = "err"],
       meta |-> [NoMeta EXCEPT !["B"] = [cat |-> "controller", scope |-> "transient"]]] }

(* ------------------------------------------------------------------ *)
(* Initial state: `new Container()`                                    *)
(* ------------------------------------------------------------------ *)
\* `log`: what the call wrote to the console
NoCall == [op |-> "none", token |-> "-", requestId |-> NoRid, ok |-> TRUE,
           val |-> NoValue, err |-> NoErr, log |-> "none", provider |-> NoProvider]

\* an async call: `op` is the function that was called, `fn` the function
\* whose body is running (shutdown runs cleanupRequest and cleanupTransient),
\* `at` what it awaits, `arr` and `idx` the array and element its loop is at,
\* `rest` what is left of the snapshot it iterates, `tried` the part of it the
\* loop has been through, `val` the value it awaits; at "done" the call has
\* returned, at "failed" it has thrown (its promise is rejected)
NewTask(op) ==
    [op |-> op, fn |-> op, at |-> "start", requestId |-> NoRid, arr |-> 0, idx |-> 0,
     rest |-> <<>>, tried |-> <<>>, val |-> NoValue]

\* what a step did to an async call: started it or resumed it (`event`), which
\* one of the suspended calls it was (`by`), and where the call stands after it
NoStepped == [event |-> "none", by |-> 0, task |-> NewTask("none")]

\* the hooks of the lifecycle contract, and what a call of one does: the class
\* has none ("absent"), it returns or its promise fulfils ("ok"), it throws
\* synchronously ("throws"), it returns a promise that rejects ("rejects")
HookNames == {"onInit", "onRequestStart", "onRequestEnd", "onDestroy"}
HookKinds == {"absent", "ok", "throws", "rejects"}

NoHooks == [c \in Classes |-> [h \in HookNames |-> "absent"]]

\* new Container()
NewContainer ==
    /\ providers = [t \in Tokens |-> NoProvider]
    /\ singletons = [t \in Tokens |-> NoValue]
    /\ requestInstances = <<>>
    /\ pendingResolutions = [t \in Tokens |-> NoPending]
    /\ resolutionStack = <<>>
    /\ enableDeferredResolution = TRUE
    /\ timers = <<>>
    /\ promises = <<>>
    /\ heap = <<>>
    /\ genCount = 0

\* const lifecycleRegistry = { singleton: [], transient: [], request: new Map() }
NewRegistry ==
    /\ lifecycleRegistry = [singleton |-> <<>>, transient |-> <<>>, request |-> <<>>]
    /\ arrays = <<>>

\* nothing has been called yet
NothingCalled ==
    /\ ret = NoCall
    /\ steps = 0
    /\ tasks = <<>>
    /\ invoked = <<>>
    /\ stepped = NoStepped

Init ==
    /\ NewContainer
    /\ NewRegistry
    /\ NothingCalled
    /\ \E pr \in Programs :
          /\ paramtypes = pr.paramtypes
          /\ hnames = pr.hnames
          /\ ctorFail = pr.ctorFail
          /\ meta = pr.meta
    /\ hooks = NoHooks
    /\ limit = MaxSteps

(* ------------------------------------------------------------------ *)
(* Operations                                                          *)
(* ------------------------------------------------------------------ *)
Step ==
    /\ steps < limit
    /\ steps' = steps + 1

\* a call on the container: it calls no hook, touches no lifecycle record and
\* resumes no async call
ContainerOnly ==
    /\ invoked' = <<>>
    /\ stepped' = NoStepped
    /\ UNCHANGED <<lifecycleRegistry, arrays, tasks>>

\* the container's fields after a call that ended in state st
Commit(st, ts) ==
    /\ providers' = st.providers
    /\ singletons' = st.singletons
    /\ requestInstances' = st.requestInstances
    /\ pendingResolutions' = st.pendingResolutions
    /\ resolutionStack' = st.resolutionStack
    /\ heap' = st.heap
    /\ genCount' = st.genCount
    /\ promises' = st.promises
    /\ timers' = ts

Called(op, token, requestId, r) ==
    [op |-> op, token |-> token, requestId |-> requestId, ok |-> r.ok,
     val |-> r.val, err |-> r.err, log |-> "none", provider |-> NoProvider]

Register(token, provider) ==
    /\ Step
    /\ ContainerOnly
    /\ Commit(register(Now, token, provider), timers)
    /\ ret' = [NoCall EXCEPT !.op = "register", !.token = token, !.provider = provider,
                             !.log = IF pendingResolutions[token] # NoPending
                                     THEN "previously pending" ELSE "none"]
    /\ UNCHANGED <<enableDeferredResolution, ctorFail, statics>>

\* the end of a call or callback that produced r: the timers it scheduled are
\* queued, the container keeps the state the call left
Finish(op, token, requestId, r, ts) ==
    /\ \E k \in schedulePositions(ts, SelectSeq(r.st.scheduled, LAMBDA x : x.stage = 1)) :
          Commit(r.st, insertTimers(ts, k, SelectSeq(r.st.scheduled, LAMBDA x : x.stage = 1))
                          \o SelectSeq(r.st.scheduled, LAMBDA x : x.stage = 2))
    /\ ret' = Called(op, token, requestId, r)

Resolve(token, requestId) ==
    /\ Step
    /\ ContainerOnly
    /\ Finish("resolve", token, requestId, resolve(Now, token, requestId), timers)
    /\ UNCHANGED <<enableDeferredResolution, ctorFail, statics>>

\* a clearRequestInstances that takes the lifecycle bucket of the request with it
ClearRequestInstances_withBucket(requestId) ==
    /\ Step
    /\ invoked' = <<>>
    /\ stepped' = NoStepped
    /\ lifecycleRegistry' = [lifecycleRegistry EXCEPT
                                !.request = SelectSeq(@, LAMBDA e : e.requestId # requestId)]
    /\ requestInstances' = [r \in DOMAIN requestInstances \ {requestId} |-> requestInstances[r]]
    /\ ret' = [NoCall EXCEPT !.op = "clearRequestInstances", !.requestId = requestId,
                             !.log = IF requestId \in DOMAIN requestInstances
                                     THEN "deleted" ELSE "none"]
    /\ UNCHANGED <<providers, singletons, pendingResolutions, resolutionStack,
                   enableDeferredResolution, timers, promises, heap, genCount, ctorFail,
                   statics, arrays, tasks>>

\* `log`: what Map.delete found, an entry ("deleted") or none
ClearRequestInstances(requestId) ==
    /\ Step
    /\ ContainerOnly
    /\ requestInstances' = [r \in DOMAIN requestInstances \ {requestId} |-> requestInstances[r]]
    /\ ret' = [NoCall EXCEPT !.op = "clearRequestInstances", !.requestId = requestId,
                             !.log = IF requestId \in DOMAIN requestInstances
                                     THEN "deleted" ELSE "none"]
    /\ UNCHANGED <<providers, singletons, pendingResolutions, resolutionStack,
                   enableDeferredResolution, timers, promises, heap, genCount, ctorFail,
                   statics>>

SetDeferredResolution(enabled) ==
    /\ Step
    /\ ContainerOnly
    /\ enableDeferredResolution' = enabled
    /\ ret' = [NoCall EXCEPT !.op = "setDeferredResolution"]
    /\ UNCHANGED <<providers, singletons, requestInstances, pendingResolutions,
                   resolutionStack, timers, promises, heap, genCount, ctorFail, statics>>

Reset ==
    /\ Step
    /\ ContainerOnly
    /\ providers' = [t \in Tokens |-> NoProvider]
    /\ singletons' = [t \in Tokens |-> NoValue]
    /\ requestInstances' = <<>>
    /\ ret' = [NoCall EXCEPT !.op = "reset"]
    /\ UNCHANGED <<pendingResolutions, resolutionStack, enableDeferredResolution, timers,
                   promises, heap, genCount, ctorFail, statics>>

\* what the callback does with the outcome r of its resolveInternal call
settle(r, t) ==
    IF r.ok
    THEN [r EXCEPT !.st.pendingResolutions[t.token] = NoPending,
                   !.st.promises[t.promise] = "fulfilled"]
    ELSE IF t.stage = 1 /\ ~(t.attempts >= 2)
         THEN [r EXCEPT !.st.scheduled = Append(@, [t EXCEPT !.stage = 2])]
         ELSE [r EXCEPT !.st.promises[t.promise] = "rejected"]

\* the callback of the first setTimeout (stage 1) or of the nested one (stage 2)
retryCallback(st, t) ==
    settle(resolveInternal(st, t.token, t.requestId), t)

RetryTimer ==
    /\ Step
    /\ ContainerOnly
    /\ timers # <<>>
    /\ Finish("retry", Head(timers).token, Head(timers).requestId,
              retryCallback(Now, Head(timers)), Tail(timers))
    /\ UNCHANGED <<enableDeferredResolution, ctorFail, statics>>

\* a class declaration that was in its temporal dead zone finishes evaluating
ClassInitialized(c) ==
    /\ Step
    /\ ContainerOnly
    /\ ctorFail[c] = "tdz"
    /\ ctorFail' = [ctorFail EXCEPT ![c] = "ok"]
    /\ ret' = [NoCall EXCEPT !.op = "classInitialized", !.token = c]
    /\ UNCHANGED <<providers, singletons, requestInstances, pendingResolutions,
                   resolutionStack, enableDeferredResolution, timers, promises, heap,
                   genCount, statics>>

Next ==
    \/ \E token \in Tokens : \E provider \in RegisterInputs(token) : Register(token, provider)
    \/ \E token \in Tokens : \E requestId \in CallerRids \cup {NoRid} : Resolve(token, requestId)
    \/ \E requestId \in CallerRids : ClearRequestInstances(requestId)
    \/ \E enabled \in BOOLEAN : SetDeferredResolution(enabled)
    \/ Reset
    \/ RetryTimer
    \/ \E c \in Classes : ClassInitialized(c)

Spec == Init /\ [][Next]_vars

(* ------------------------------------------------------------------ *)
(* Lifecycle Registry: applyLifecycle                                  *)
(* ------------------------------------------------------------------ *)
\* the lifecycle state a call works on; `invoked` collects the hooks it calls
Life == [registry |-> lifecycleRegistry, arrays |-> arrays, invoked |-> <<>>, heap |-> heap]

\* typeof instance[h] === "function", and what calling it does
hookKind(ls, instance, h) ==
    IF instance.k = "inst" /\ ls.heap[instance.id].cls \in Classes
    THEN hooks[ls.heap[instance.id].cls][h]
    ELSE "absent"

\* instance[h](): `fn` is the function that makes the call, `by` the async call
\* it runs in, 0 for applyLifecycle
call(ls, h, instance, by, fn) ==
    [ls EXCEPT !.invoked = Append(@, [hook |-> h, instance |-> instance, by |-> by,
                                     fn |-> fn])]

\* lifecycleRegistry.request, a Map: entries in insertion order
requestHas(request, requestId) ==
    \E i \in 1..Len(request) : request[i].requestId = requestId

requestGet(request, requestId) ==
    request[CHOOSE i \in 1..Len(request) : request[i].requestId = requestId].arr

requestDelete(request, requestId) ==
    SelectSeq(request, LAMBDA e : e.requestId # requestId)

\* if (!lifecycleRegistry.request.has(requestId)) lifecycleRegistry.request.set(requestId, [])
ensureBucket(ls, requestId) ==
    IF requestHas(ls.registry.request, requestId) THEN ls
    ELSE [ls EXCEPT !.arrays = Append(@, <<>>),
                    !.registry.request =
                        Append(@, [requestId |-> requestId, arr |-> Len(ls.arrays) + 1])]

\* lifecycleRegistry.request.get(requestId)!.push(ref)
pushRequestRef(ls, requestId, instance) ==
    [ls EXCEPT !.arrays[requestGet(ls.registry.request, requestId)] = Append(@, instance)]

\* a record keeps the instance: its onDestroy and onRequestEnd are the
\* instance's own hooks, bound, or the empty function for a missing onRequestEnd
registerForCleanup(ls, instance, scope, requestId) ==
    CASE scope = "singleton" -> [ls EXCEPT !.registry.singleton = Append(@, instance)]
      [] scope = "transient" -> [ls EXCEPT !.registry.transient = Append(@, instance)]
      [] scope = "request" /\ requestId # NoRid ->
            pushRequestRef(ensureBucket(ls, requestId), requestId, instance)
      [] OTHER -> ls

\* creates the bucket when it is missing; the record of the instance, when the
\* bucket has one, gets the onRequestEnd it already had; no record is added
registerForRequestCleanup(ls, instance, requestId) ==
    ensureBucket(ls, requestId)

\* the two registrations at the end of applyLifecycle
applyRegister(ls, instance, scope, requestId) ==
    LET d == IF hookKind(ls, instance, "onDestroy") # "absent"
             THEN registerForCleanup(ls, instance, scope, requestId) ELSE ls
    IN [ls |-> IF scope = "request" /\ requestId # NoRid
                  /\ hookKind(ls, instance, "onRequestEnd") # "absent"
               THEN registerForRequestCleanup(d, instance, requestId) ELSE d,
        ok |-> TRUE]

\* onRequestStart: a synchronous throw leaves applyLifecycle, a rejection is logged
applyRequestStart(ls, instance, scope, requestId) ==
    IF scope = "request" /\ requestId # NoRid /\ hookKind(ls, instance, "onRequestStart") # "absent"
    THEN IF hookKind(ls, instance, "onRequestStart") = "throws"
         THEN [ls |-> call(ls, "onRequestStart", instance, 0, "applyLifecycle"), ok |-> FALSE]
         ELSE applyRegister(call(ls, "onRequestStart", instance, 0, "applyLifecycle"), instance, scope, requestId)
    ELSE applyRegister(ls, instance, scope, requestId)

\* onInit: a synchronous throw leaves applyLifecycle, a rejection is logged
applyLifecycle(ls, instance, scope, requestId) ==
    IF hookKind(ls, instance, "onInit") = "absent"
    THEN applyRequestStart(ls, instance, scope, requestId)
    ELSE IF hookKind(ls, instance, "onInit") = "throws"
         THEN [ls |-> call(ls, "onInit", instance, 0, "applyLifecycle"), ok |-> FALSE]
         ELSE applyRequestStart(call(ls, "onInit", instance, 0, "applyLifecycle"), instance, scope, requestId)

(* ------------------------------------------------------------------ *)
(* Lifecycle Registry: the async functions and their awaits            *)
(* ------------------------------------------------------------------ *)
Suspended(ls, t, at) == [ls |-> ls, t |-> [t EXCEPT !.at = at]]

\* the function t.fn returns: the call is over, or its caller awaits the promise
returned(ls, t) ==
    IF t.op = t.fn THEN Suspended(ls, t, "done") ELSE Suspended(ls, t, "call")

RECURSIVE requestLoop(_, _, _)
RECURSIVE requestEnd(_, _, _)
RECURSIVE requestDestroy(_, _, _)
RECURSIVE transientLoop(_, _, _)
RECURSIVE singletonLoop(_, _, _)

\* a loop body that destroys a record without ending its request first
requestLoop_destroyOnly(ls, t, by) ==
    IF t.idx > Len(ls.arrays[t.arr])
    THEN returned([ls EXCEPT !.registry.request = requestDelete(@, t.requestId)], t)
    ELSE requestDestroy(ls, t, by)

\* for (const ref of requestRefs) { ... } lifecycleRegistry.request.delete(requestId)
requestLoop(ls, t, by) ==
    IF t.idx > Len(ls.arrays[t.arr])
    THEN returned([ls EXCEPT !.registry.request = requestDelete(@, t.requestId)], t)
    ELSE requestEnd(ls, t, by)

\* a loop body without its try block: a throwing hook ends the call
requestEnd_uncaught(ls, t, by) ==
    CASE hookKind(ls, ls.arrays[t.arr][t.idx], "onRequestEnd") = "absent" ->
            Suspended(ls, t, "onRequestEnd")
      [] hookKind(ls, ls.arrays[t.arr][t.idx], "onRequestEnd") = "throws" ->
            Suspended(call(ls, "onRequestEnd", ls.arrays[t.arr][t.idx], by, t.fn), t, "failed")
      [] OTHER ->
            Suspended(call(ls, "onRequestEnd", ls.arrays[t.arr][t.idx], by, t.fn), t, "onRequestEnd")

\* await ref.onRequestEnd(): a synchronous throw goes to the catch block
requestEnd(ls, t, by) ==
    CASE hookKind(ls, ls.arrays[t.arr][t.idx], "onRequestEnd") = "absent" ->
            Suspended(ls, t, "onRequestEnd")
      [] hookKind(ls, ls.arrays[t.arr][t.idx], "onRequestEnd") = "throws" ->
            requestLoop(call(ls, "onRequestEnd", ls.arrays[t.arr][t.idx], by, t.fn),
                        [t EXCEPT !.idx = @ + 1], by)
      [] OTHER ->
            Suspended(call(ls, "onRequestEnd", ls.arrays[t.arr][t.idx], by, t.fn), t, "onRequestEnd")

\* await ref.onDestroy()
requestDestroy(ls, t, by) ==
    IF hookKind(ls, ls.arrays[t.arr][t.idx], "onDestroy") = "throws"
    THEN requestLoop(call(ls, "onDestroy", ls.arrays[t.arr][t.idx], by, t.fn),
                     [t EXCEPT !.idx = @ + 1], by)
    ELSE Suspended(call(ls, "onDestroy", ls.arrays[t.arr][t.idx], by, t.fn), t, "onDestroy")

\* a cleanupRequest that falls back on the oldest bucket when the id has none
cleanupRequest_anyBucket(ls, t, by) ==
    IF ls.registry.request = <<>>
    THEN returned(ls, t)
    ELSE IF requestHas(ls.registry.request, t.requestId)
         THEN requestLoop(ls, [t EXCEPT !.arr = requestGet(ls.registry.request, t.requestId),
                                        !.idx = 1], by)
         ELSE requestLoop(ls, [t EXCEPT !.arr = ls.registry.request[1].arr, !.idx = 1], by)

\* the body of cleanupRequest up to its first await
cleanupRequest(ls, t, by) ==
    IF ~requestHas(ls.registry.request, t.requestId)
    THEN returned(ls, t)
    ELSE requestLoop(ls, [t EXCEPT !.arr = requestGet(ls.registry.request, t.requestId),
                                   !.idx = 1], by)

\* for (const ref of lifecycleRegistry.transient) { ... } transient.length = 0
transientLoop(ls, t, by) ==
    IF t.idx > Len(ls.registry.transient)
    THEN returned([ls EXCEPT !.registry.transient = <<>>], t)
    ELSE IF hookKind(ls, ls.registry.transient[t.idx], "onDestroy") = "throws"
         THEN transientLoop(call(ls, "onDestroy", ls.registry.transient[t.idx], by, t.fn),
                            [t EXCEPT !.idx = @ + 1], by)
         ELSE Suspended(call(ls, "onDestroy", ls.registry.transient[t.idx], by, t.fn), t, "onDestroy")

cleanupTransient(ls, t, by) ==
    transientLoop(ls, [t EXCEPT !.fn = "cleanupTransient", !.idx = 1], by)

\* for (const ref of lifecycleRegistry.singleton) { ... } singleton.length = 0
singletonLoop(ls, t, by) ==
    IF t.idx > Len(ls.registry.singleton)
    THEN Suspended([ls EXCEPT !.registry.singleton = <<>>], t, "done")
    ELSE IF hookKind(ls, ls.registry.singleton[t.idx], "onDestroy") = "throws"
         THEN singletonLoop(call(ls, "onDestroy", ls.registry.singleton[t.idx], by, t.fn),
                            [t EXCEPT !.idx = @ + 1], by)
         ELSE Suspended(call(ls, "onDestroy", ls.registry.singleton[t.idx], by, t.fn), t, "onDestroy")

\* for (const requestId of activeRequests) await cleanupRequest(requestId);
\* await cleanupTransient()
shutdownRequests(ls, t, by) ==
    IF t.rest = <<>>
    THEN cleanupTransient(ls, t, by)
    ELSE cleanupRequest(ls, [t EXCEPT !.fn = "cleanupRequest", !.requestId = Head(t.rest),
                                      !.rest = Tail(t.rest)], by)

\* const activeRequests = Array.from(lifecycleRegistry.request.keys())
shutdown(ls, t, by) ==
    shutdownRequests(ls, [t EXCEPT !.rest = [i \in 1..Len(ls.registry.request) |->
                                                 ls.registry.request[i].requestId]], by)

\* the continuation after the await the call is suspended at
resume(ls, t, by) ==
    CASE t.fn = "cleanupRequest" /\ t.at = "onRequestEnd" ->
            IF hookKind(ls, ls.arrays[t.arr][t.idx], "onRequestEnd") = "rejects"
            THEN requestLoop(ls, [t EXCEPT !.idx = @ + 1], by)
            ELSE requestDestroy(ls, t, by)
      [] t.fn = "cleanupRequest" /\ t.at = "onDestroy" ->
            requestLoop(ls, [t EXCEPT !.idx = @ + 1], by)
      [] t.fn = "cleanupRequest" /\ t.at = "call" ->
            shutdownRequests(ls, t, by)
      [] t.fn = "cleanupTransient" /\ t.at = "onDestroy" ->
            transientLoop(ls, [t EXCEPT !.idx = @ + 1], by)
      [] t.fn = "cleanupTransient" /\ t.at = "call" ->
            singletonLoop(ls, [t EXCEPT !.fn = "shutdown", !.idx = 1], by)
      [] OTHER ->
            singletonLoop(ls, [t EXCEPT !.idx = @ + 1], by)

(* ------------------------------------------------------------------ *)
(* Lifecycle Registry: operations                                      *)
(* ------------------------------------------------------------------ *)
\* the request ids the callers of the Lifecycle Registry pass
RequestIds == CallerRids \cup {[src |-> "caller", n |-> 2]}

\* the scope and request id a caller passes to applyLifecycle for an instance
\* of class cls
ApplyInputs(cls) ==
    CASE cls = "A" -> {<<"request", r>> : r \in RequestIds}
      [] cls = "B" -> {<<"transient", NoRid>>, <<"singleton", NoRid>>}
                      \cup {<<"request", r>> : r \in CallerRids}
      [] OTHER -> {<<"singleton", NoRid>>} \cup {<<"request", r>> : r \in CallerRids}

\* the instances a caller passes to applyLifecycle: the one resolve has just
\* returned to it, or one it has just built itself
ApplyInstances ==
    {Len(heap) + 1} \cup (IF ret.op = "resolve" /\ ret.val.k = "inst" THEN {ret.val.id} ELSE {})

\* the lifecycle specification leaves the container as it is
LifeOnly ==
    UNCHANGED <<providers, singletons, requestInstances, pendingResolutions, resolutionStack,
                enableDeferredResolution, timers, promises, genCount, ctorFail, statics>>

\* applyLifecycle(instance, scope, requestId), for instance number i of the
\* heap, or for a new instance of cls that the caller has just built
ApplyLifecycle(i, cls, scope, requestId) ==
    /\ Step
    /\ i <= Len(heap) => heap[i].cls = cls
    /\ heap' = IF i <= Len(heap) THEN heap ELSE Append(heap, [cls |-> cls, args |-> <<>>])
    /\ LET r == applyLifecycle([Life EXCEPT !.heap = heap'], InstVal(i), scope, requestId) IN
          /\ lifecycleRegistry' = r.ls.registry
          /\ arrays' = r.ls.arrays
          /\ invoked' = r.ls.invoked
          /\ ret' = [NoCall EXCEPT !.op = "applyLifecycle", !.val = InstVal(i),
                                   !.requestId = requestId, !.ok = r.ok, !.log = scope]
    /\ stepped' = NoStepped
    /\ UNCHANGED tasks
    /\ LifeOnly

\* the suspended calls after call number i reached t
place(ts, i, t) ==
    IF t.at \in {"done", "failed"} THEN SubSeq(ts, 1, i - 1) \o SubSeq(ts, i + 1, Len(ts))
    ELSE IF i > Len(ts) THEN Append(ts, t)
    ELSE [ts EXCEPT ![i] = t]

\* async call number i ran up to its next await, or to its end
Advance(r, i, event) ==
    /\ lifecycleRegistry' = r.ls.registry
    /\ arrays' = r.ls.arrays
    /\ invoked' = r.ls.invoked
    /\ tasks' = place(tasks, i, r.t)
    /\ stepped' = [event |-> event, by |-> i, task |-> r.t]
    /\ ret' = [NoCall EXCEPT !.op = r.t.op]
    /\ UNCHANGED heap
    /\ LifeOnly

CleanupRequest(requestId) ==
    /\ Step
    /\ Len(tasks) < MaxTasks
    /\ Advance(cleanupRequest(Life, [NewTask("cleanupRequest") EXCEPT !.requestId = requestId],
                              Len(tasks) + 1),
               Len(tasks) + 1, "start")

CleanupTransient ==
    /\ Step
    /\ Len(tasks) < MaxTasks
    /\ Advance(cleanupTransient(Life, NewTask("cleanupTransient"), Len(tasks) + 1),
               Len(tasks) + 1, "start")

Shutdown ==
    /\ Step
    /\ Len(tasks) < MaxTasks
    /\ Advance(shutdown(Life, NewTask("shutdown"), Len(tasks) + 1), Len(tasks) + 1, "start")

\* the promise call number i awaits has settled and the call continues
Resume(i) ==
    /\ Step
    /\ tasks[i].op \in {"cleanupRequest", "cleanupTransient", "shutdown"}
    /\ Advance(resume(Life, tasks[i], i), i, "resume")

(* ------------------------------------------------------------------ *)
(* The lifecycle specification                                         *)
(* ------------------------------------------------------------------ *)
Hooks(onInit, onRequestStart, onRequestEnd, onDestroy) ==
    [h \in HookNames |-> CASE h = "onInit" -> onInit
                           [] h = "onRequestStart" -> onRequestStart
                           [] h = "onRequestEnd" -> onRequestEnd
                           [] OTHER -> onDestroy]

NoDeps == [c \in Classes |-> <<>>]

\* A is a request-scoped service
RequestService == [NoMeta EXCEPT !["A"] = [cat |-> "service", scope |-> "request"]]

\* classes with lifecycle hooks that succeed, reject or throw
LifePrograms ==
    { [paramtypes |-> NoDeps, hnames |-> {}, ctorFail |-> AllOk, meta |-> RequestService,
       hooks |-> [c \in Classes |->
                     CASE c = "A" -> Hooks("ok", "ok", "ok", "ok")
                       [] c = "B" -> Hooks("rejects", "rejects", "rejects", "rejects")
                       [] OTHER -> Hooks("absent", "absent", "ok", "absent")]],
      [paramtypes |-> NoDeps, hnames |-> {}, ctorFail |-> AllOk, meta |-> RequestService,
       hooks |-> [c \in Classes |->
                     CASE c = "A" -> Hooks("ok", "absent", "throws", "ok")
                       [] c = "B" -> Hooks("ok", "throws", "ok", "throws")
                       [] OTHER -> Hooks("throws", "absent", "ok", "ok")]] }

LifeInit ==
    /\ NewContainer
    /\ NewRegistry
    /\ NothingCalled
    /\ \E pr \in LifePrograms :
          /\ paramtypes = pr.paramtypes
          /\ hnames = pr.hnames
          /\ ctorFail = pr.ctorFail
          /\ meta = pr.meta
          /\ hooks = pr.hooks
    /\ limit = MaxLifeSteps

LifeNext ==
    \/ \E requestId \in CallerRids \cup {NoRid} : Resolve("A", requestId)
    \/ \E requestId \in CallerRids : ClearRequestInstances(requestId)
    \/ \E i \in ApplyInstances : \E cls \in Classes : \E in \in ApplyInputs(cls) :
          ApplyLifecycle(i, cls, in[1], in[2])
    \/ \E requestId \in RequestIds : CleanupRequest(requestId)
    \/ CleanupTransient
    \/ Shutdown
    \/ \E i \in 1..Len(tasks) : Resume(i)

LifeSpec == LifeInit /\ [][LifeNext]_vars

(* ------------------------------------------------------------------ *)
(* resolvePendingDependencies                                          *)
(* ------------------------------------------------------------------ *)
\* Array.from(this.pendingResolutions.keys()): the pending tokens, in the
\* order the Map holds them
KeyOrders ==
    LET P == {t \in Tokens : pendingResolutions[t] # NoPending} IN
    {q \in [1..Cardinality(P) -> P] : \A i, j \in 1..Cardinality(P) : q[i] = q[j] => i = j}

RECURSIVE rpdLoop(_, _)
RECURSIVE rpdAwait(_, _)

\* a loop body without its try block: the error of resolve leaves the function
rpdAwait_rethrow(r, t) ==
    IF r.ok THEN [st |-> r.st, t |-> [t EXCEPT !.at = "resolve", !.val = r.val]]
    ELSE [st |-> r.st, t |-> [t EXCEPT !.at = "failed"]]

\* try { await this.resolve(token) } catch (error) { console.warn(...) }
rpdAwait(r, t) ==
    IF r.ok THEN [st |-> r.st, t |-> [t EXCEPT !.at = "resolve", !.val = r.val]]
    ELSE rpdLoop(r.st, t)

\* for (const token of pendingTokens) { ... }
rpdLoop(st, t) ==
    IF t.rest = <<>> THEN [st |-> st, t |-> [t EXCEPT !.at = "done"]]
    ELSE rpdAwait(resolve(st, Head(t.rest), NoRid),
                  [t EXCEPT !.rest = Tail(@), !.tried = Append(@, Head(t.rest))])

\* the call ran up to its next await, or to its end
RpdAdvance(x, i, event) ==
    /\ Finish("resolvePendingDependencies", "-", NoRid,
              [st |-> x.st, ok |-> x.t.at # "failed", val |-> NoValue, err |-> NoErr], timers)
    /\ tasks' = place(tasks, i, x.t)
    /\ stepped' = [event |-> event, by |-> i, task |-> x.t]
    /\ invoked' = <<>>
    /\ UNCHANGED <<lifecycleRegistry, arrays, enableDeferredResolution, ctorFail, statics>>

ResolvePendingDependencies ==
    /\ Step
    /\ Len(tasks) < MaxTasks
    /\ \E order \in KeyOrders :
          RpdAdvance(rpdLoop(Now, [NewTask("resolvePendingDependencies") EXCEPT !.rest = order]),
                     Len(tasks) + 1, "start")

\* the value the call awaits is no promise, or a promise that has settled
RpdResume(i) ==
    /\ Step
    /\ tasks[i].op = "resolvePendingDependencies"
    /\ tasks[i].val.k = "promise" => promises[tasks[i].val.id] # "pending"
    /\ RpdAdvance(rpdLoop(Now, tasks[i]), i, "resume")

\* programs in which a resolution is deferred
PendingPrograms ==
    {pr \in Programs : pr.paramtypes = Cycle /\ pr.hnames # {}} \cup
    {pr \in Programs : \E c \in Classes : pr.ctorFail[c] = "tdz"}

PendingInit ==
    /\ NewContainer
    /\ NewRegistry
    /\ NothingCalled
    /\ \E pr \in PendingPrograms :
          /\ paramtypes = pr.paramtypes
          /\ hnames = pr.hnames
          /\ ctorFail = pr.ctorFail
          /\ meta = pr.meta
    /\ hooks = NoHooks
    /\ limit = MaxPendingSteps

PendingNext ==
    \/ \E token \in Classes : Resolve(token, NoRid)
    \/ SetDeferredResolution(FALSE)
    \/ RetryTimer
    \/ \E c \in Classes : ClassInitialized(c)
    \/ ResolvePendingDependencies
    \/ \E i \in 1..Len(tasks) : RpdResume(i)

PendingSpec == PendingInit /\ [][PendingNext]_vars

(* ------------------------------------------------------------------ *)
(* Providers with a scope outside singleton, transient and request     *)
(* ------------------------------------------------------------------ *)
\* a scope that resolveInternal's switch has no case for
OtherScope == "session"

\* register is passed providers of each strategy that declare such a scope
ScopeInputs(token) ==
    CASE token = "s" -> {[ValueProvider(1) EXCEPT !.scope = OtherScope],
                         FactoryProvider(OtherScope)}
      [] token = "A" -> {ClassProvider("A", "singleton"), ClassProvider("A", OtherScope)}
      [] OTHER -> {ClassProvider(token, OtherScope), ClassProvider(token, "transient")}

ScopeNext ==
    \/ \E token \in Tokens : \E provider \in ScopeInputs(token) : Register(token, provider)
    \/ \E token \in Tokens : Resolve(token, NoRid)
    \/ RetryTimer

ScopeSpec == Init /\ [][ScopeNext]_vars

\* the event loop fires every timer that is due: a scheduled retry callback
\* runs; no caller is obliged to call the container again
FairPendingSpec == PendingInit /\ [][PendingNext]_vars /\ WF_vars(RetryTimer)

(* ------------------------------------------------------------------ *)
(* HTTP routes: the handler registerHttpRoutes gives to the adapter    *)
(* ------------------------------------------------------------------ *)
\* generateRequestId() of the routes module: unique for each request; n is a
\* time stamp
httpRequestId(n) == [src |-> "http", n |-> n]

\* what a synchronous stretch of the handler left: the container, the
\* Lifecycle Registry and the outcome
Outcome(st, ls, ok, val) == [st |-> st, ls |-> ls, ok |-> ok, val |-> val]

\* applyLifecycle(controllerInstance, scope [, requestId]) on what resolve returned
controllerLifecycle(r, ls, scope, requestId) ==
    IF ~r.ok THEN Outcome(r.st, ls, FALSE, NoValue)
    ELSE IF scope = "singleton" THEN Outcome(r.st, [ls EXCEPT !.heap = r.st.heap], TRUE, r.val)
    ELSE Outcome(r.st,
                 applyLifecycle([ls EXCEPT !.heap = r.st.heap], r.val, scope, requestId).ls,
                 applyLifecycle([ls EXCEPT !.heap = r.st.heap], r.val, scope, requestId).ok,
                 r.val)

\* Reflect.getMetadata("service:scope", controllerClass) ?? "singleton"
resolveControllerWithLifecycle(st, ls, controllerClass, requestId) ==
    CASE meta[controllerClass].scope = "singleton" ->
            controllerLifecycle(resolve(st, controllerClass, NoRid), ls, "singleton", NoRid)
      [] meta[controllerClass].scope = "transient" ->
            controllerLifecycle(resolve(st, controllerClass, requestId), ls, "transient", NoRid)
      [] meta[controllerClass].scope = "request" ->
            controllerLifecycle(resolve(st, controllerClass, requestId), ls, "request", requestId)
      [] OTHER -> Outcome(st, ls, FALSE, NoValue)

\* the cleanupRequest of the finally block, up to its first await
handlerCleanup(st, c) == [st |-> st, ls |-> c.ls, t |-> c.t]

\* finally { try { await cleanupRequest(requestId); ... } }
handlerFinally(st, ls, t, by) ==
    handlerCleanup(st, cleanupRequest(ls, [t EXCEPT !.fn = "cleanupRequest"], by))

\* try { resolveControllerWithLifecycle(...); controllerInstance[handlerName].bind(...);
\* await boundHandler(req, res) }: a controller that could not be resolved, a
\* lifecycle hook that threw and a Promise in place of the controller (it has
\* no handler method) all go to the catch block and on to the finally block
handlerTry(x, t, by) ==
    IF x.ok /\ x.val.k = "inst"
    THEN [st |-> x.st, ls |-> x.ls, t |-> [t EXCEPT !.at = "handler", !.val = x.val]]
    ELSE handlerFinally(x.st, x.ls, t, by)

\* the continuation of the handler after the await it is suspended at: after
\* the route method the finally block; after cleanupRequest
\* GlobalContainer.clearRequestInstances(requestId); else the next await of
\* cleanupRequest
handlerResume(st, ls, t, by) ==
    CASE t.at = "handler" -> handlerFinally(st, ls, t, by)
      [] t.at = "call" ->
            [st |-> [st EXCEPT !.requestInstances =
                        [r \in DOMAIN @ \ {t.requestId} |-> @[r]]],
             ls |-> ls, t |-> [t EXCEPT !.at = "done"]]
      [] OTHER -> handlerCleanup(st, resume(ls, t, by))

\* the handler ran up to its next await, or to its end
HttpAdvance(x, i, event) ==
    /\ Finish("handleRequest", "-", x.t.requestId,
              [st |-> x.st, ok |-> TRUE, val |-> x.t.val, err |-> NoErr], timers)
    /\ lifecycleRegistry' = x.ls.registry
    /\ arrays' = x.ls.arrays
    /\ invoked' = x.ls.invoked
    /\ tasks' = place(tasks, i, x.t)
    /\ stepped' = [event |-> event, by |-> i, task |-> x.t]
    /\ UNCHANGED <<enableDeferredResolution, ctorFail, statics>>

\* a request arrives for a route of controllerClass
HandleRequest(controllerClass) ==
    /\ Step
    /\ Len(tasks) < MaxTasks
    /\ meta[controllerClass].cat = "controller"
    /\ HttpAdvance(handlerTry(resolveControllerWithLifecycle(Now, Life, controllerClass,
                                                             httpRequestId(steps + 1)),
                              [NewTask("handleRequest") EXCEPT
                                  !.requestId = httpRequestId(steps + 1)],
                              Len(tasks) + 1),
                   Len(tasks) + 1, "start")

\* the promise the handler awaits has settled
HttpResume(i) ==
    /\ Step
    /\ tasks[i].op = "handleRequest"
    /\ HttpAdvance(handlerResume(Now, Life, tasks[i], i), i, "resume")

\* components of an application with routes: the controller A, request-scoped,
\* gets the request-scoped service B; the controller C is transient and gets B
\* too. In the second program the class A is still in its temporal dead zone.
HttpDeps == [c \in Classes |-> IF c = "B" THEN <<>> ELSE <<"B">>]

HttpMeta ==
    [c \in Classes |-> CASE c = "A" -> [cat |-> "controller", scope |-> "request"]
                         [] c = "B" -> [cat |-> "service", scope |-> "request"]
                         [] OTHER -> [cat |-> "controller", scope |-> "transient"]]

HttpHooks ==
    [c \in Classes |-> CASE c = "A" -> Hooks("ok", "ok", "ok", "ok")
                         [] c = "B" -> Hooks("ok", "absent", "ok", "ok")
                         [] OTHER -> Hooks("ok", "absent", "absent", "rejects")]

HttpPrograms ==
    { [paramtypes |-> HttpDeps, hnames |-> {}, ctorFail |-> AllOk, meta |-> HttpMeta,
       hooks |-> HttpHooks],
      [paramtypes |-> HttpDeps, hnames |-> {}, ctorFail |-> [AllOk EXCEPT !["A"] = "tdz"],
       meta |-> HttpMeta, hooks |-> HttpHooks] }

HttpInit ==
    /\ NewContainer
    /\ NewRegistry
    /\ NothingCalled
    /\ \E pr \in HttpPrograms :
          /\ paramtypes = pr.paramtypes
          /\ hnames = pr.hnames
          /\ ctorFail = pr.ctorFail
          /\ meta = pr.meta
          /\ hooks = pr.hooks
    /\ limit = MaxHttpSteps

HttpNext ==
    \/ \E controllerClass \in Classes : HandleRequest(controllerClass)
    \/ \E i \in 1..Len(tasks) : HttpResume(i)
    \/ RetryTimer
    \/ \E c \in Classes : ClassInitialized(c)

HttpSpec == HttpInit /\ [][HttpNext]_vars

(* ------------------------------------------------------------------ *)
(* Scanner: scanAndRegister and the functions it awaits                *)
(* ------------------------------------------------------------------ *)
\* the container and the Lifecycle Registry between two statements of the scanner
Scanned(st, ls) == [st |-> st, ls |-> [ls EXCEPT !.heap = st.heap]]

\* the metadata registry's sets, each iterated in the order of decoration
ScanOrder == <<"A", "B", "C">>

\* getBeanDefinitions(configClass): one @Bean method, for the token "s"
BeanToken == "s"
\* what the @Bean method returns
BeanValue == 1

\* const instance = GlobalContainer.resolve(cls); applyLifecycle(instance, scope);
\* what either throws is caught by the try block of the loop body
scanApply(r, ls) ==
    IF ~r.ok THEN Scanned(r.st, ls)
    ELSE Scanned(r.st, applyLifecycle([ls EXCEPT !.heap = r.st.heap], r.val, "singleton",
                                      NoRid).ls)

\* the loop body of registerServices, registerProcessors and registerControllers
scanComponent(x, cls) ==
    IF meta[cls].scope = "singleton"
    THEN scanApply(resolve(register(x.st, cls, ClassProvider(cls, "singleton")), cls, NoRid),
                   x.ls)
    ELSE Scanned(register(x.st, cls, ClassProvider(cls, meta[cls].scope)), x.ls)

\* registerApplication: always a singleton
scanApplication(x, cls) ==
    scanApply(resolve(register(x.st, cls, ClassProvider(cls, "singleton")), cls, NoRid), x.ls)

\* for (const bean of beans) GlobalContainer.register(bean.token, { useValue: value }),
\* reached when applyLifecycle did not throw
scanBeans(st, a) ==
    IF a.ok THEN Scanned(register(st, BeanToken, ValueProvider(BeanValue)), a.ls)
    ELSE Scanned(st, a.ls)

\* the loop body of registerConfigurations: new configClass() with no
\* arguments, applyLifecycle(configInstance, "singleton"), then the beans
scanConfiguration(x, cls) ==
    IF ctorFail[cls] # "ok" THEN x
    ELSE scanBeans([x.st EXCEPT !.heap = Append(@, [cls |-> cls, args |-> <<>>])],
                   applyLifecycle([x.ls EXCEPT !.heap = Append(x.st.heap,
                                                              [cls |-> cls, args |-> <<>>])],
                                  InstVal(Len(x.st.heap) + 1), "singleton", NoRid))

\* one turn of a register function's loop, for the class cls
scanOne(x, cls, cat) ==
    IF meta[cls].cat # cat THEN x
    ELSE CASE cat = "configuration" -> scanConfiguration(x, cls)
           [] cat = "application" -> scanApplication(x, cls)
           [] OTHER -> scanComponent(x, cls)

\* registerConfigurations, registerServices, registerProcessors,
\* registerControllers, registerApplication: none of them has an await
scanPhase(x, cat) ==
    scanOne(scanOne(scanOne(x, ScanOrder[1], cat), ScanOrder[2], cat), ScanOrder[3], cat)

\* a scanner that registers the services before the configurations
NextPhase_servicesFirst(at) ==
    CASE at = "start" -> "service"
      [] at = "service" -> "configuration"
      [] at = "configuration" -> "processor"
      [] at = "processor" -> "controller"
      [] OTHER -> "application"

\* the register function that follows the one scanAndRegister awaits
NextPhase(at) ==
    CASE at = "start" -> "configuration"
      [] at = "configuration" -> "service"
      [] at = "service" -> "processor"
      [] at = "processor" -> "controller"
      [] OTHER -> "application"

\* scanAndRegister suspended at `await registerX()`
scanAwait(x, t, cat) == [st |-> x.st, ls |-> x.ls, t |-> [t EXCEPT !.at = cat]]

\* scanAndRegister suspended in `await GlobalContainer.resolvePendingDependencies()`:
\* at an await of resolvePendingDependencies, or at its own once that has returned
scanPending(x, ls) ==
    [st |-> x.st, ls |-> [ls EXCEPT !.heap = x.st.heap],
     t |-> IF x.t.at = "done" THEN [x.t EXCEPT !.at = "returned"] ELSE x.t]

\* scanAndRegister continues after the await it is suspended at
scanResume(st, ls, t, order) ==
    CASE t.fn = "resolvePendingDependencies" /\ t.at = "returned" ->
            [st |-> st, ls |-> ls, t |-> [t EXCEPT !.at = "done"]]
      [] t.fn = "resolvePendingDependencies" /\ t.at # "returned" ->
            scanPending(rpdLoop(st, t), ls)
      [] t.fn # "resolvePendingDependencies" /\ t.at = "application" ->
            scanPending(rpdLoop(st, [t EXCEPT !.fn = "resolvePendingDependencies",
                                              !.rest = order]), ls)
      [] OTHER -> scanAwait(scanPhase(Scanned(st, ls), NextPhase(t.at)), t, NextPhase(t.at))

\* scanAndRegister ran up to its next await, or to its end
ScanAdvance(x, i, event) ==
    /\ Finish("scanAndRegister", "-", NoRid,
              [st |-> x.st, ok |-> TRUE, val |-> NoValue, err |-> NoErr], timers)
    /\ lifecycleRegistry' = x.ls.registry
    /\ arrays' = x.ls.arrays
    /\ invoked' = x.ls.invoked
    /\ tasks' = place(tasks, i, x.t)
    /\ stepped' = [event |-> event, by |-> i, task |-> x.t]
    /\ UNCHANGED <<enableDeferredResolution, ctorFail, statics>>

\* the application calls scanAndRegister(), again once the call before has returned
ScanAndRegister ==
    /\ Step
    /\ tasks = <<>>
    /\ ScanAdvance(scanResume(Now, Life, NewTask("scanAndRegister"), <<>>), 1, "start")

\* the promise scanAndRegister awaits has settled
ScanResume(i) ==
    /\ Step
    /\ tasks[i].op = "scanAndRegister"
    /\ (tasks[i].fn = "resolvePendingDependencies" /\ tasks[i].val.k = "promise")
          => promises[tasks[i].val.id] # "pending"
    /\ \E order \in KeyOrders : ScanAdvance(scanResume(Now, Life, tasks[i], order), i, "resume")

\* decorated classes of an application: a configuration with a bean, a
\* singleton service and a request-scoped controller that gets the service; or
\* an application class, a singleton service and a singleton processor that
\* gets the service. The service may be still in its temporal dead zone, and
\* the constructor of the service or of the class A may throw.
ScanDeps == [c \in Classes |-> IF c = "C" THEN <<"B">> ELSE <<>>]

ScanMeta ==
    { [c \in Classes |-> CASE c = "A" -> [cat |-> "configuration", scope |-> "singleton"]
                           [] c = "B" -> [cat |-> "service", scope |-> "singleton"]
                           [] OTHER -> [cat |-> "controller", scope |-> "request"]],
      [c \in Classes |-> CASE c = "A" -> [cat |-> "application", scope |-> "singleton"]
                           [] c = "B" -> [cat |-> "service", scope |-> "singleton"]
                           [] OTHER -> [cat |-> "processor", scope |-> "singleton"]] }

ScanHooks ==
    { [c \in Classes |-> IF c = "B" THEN Hooks("ok", "absent", "absent", "ok")
                         ELSE Hooks("absent", "absent", "absent", "absent")],
      [c \in Classes |-> IF c = "C" THEN Hooks("absent", "absent", "absent", "absent")
                         ELSE Hooks("ok", "absent", "absent", "ok")] }

ScanPrograms ==
    { [paramtypes |-> ScanDeps, hnames |-> {}, ctorFail |-> f, meta |-> m, hooks |-> h] :
        f \in {AllOk, [AllOk EXCEPT !["B"] = "tdz"], [AllOk EXCEPT !["B"] = "err"],
                [AllOk EXCEPT !["A"] = "err"]},
        m \in ScanMeta, h \in ScanHooks }

ScanInit ==
    /\ NewContainer
    /\ NewRegistry
    /\ NothingCalled
    /\ \E pr \in ScanPrograms :
          /\ paramtypes = pr.paramtypes
          /\ hnames = pr.hnames
          /\ ctorFail = pr.ctorFail
          /\ meta = pr.meta
          /\ hooks = pr.hooks
    /\ limit = MaxScanSteps

\* the await the call is suspended at is settled already: its continuation is
\* a microtask, it runs before any timer
MicrotaskWait(t) ==
    /\ t.op = "scanAndRegister"
    /\ \/ t.fn = "scanAndRegister"
       \/ t.at = "returned"
       \/ t.val.k # "promise"

\* a setTimeout callback runs when no microtask is waiting
ScanRetryTimer ==
    /\ \A i \in 1..Len(tasks) : ~MicrotaskWait(tasks[i])
    /\ RetryTimer

\* a module finishes the declaration of the class c, when no microtask is waiting
ScanClassInitialized(c) ==
    /\ \A i \in 1..Len(tasks) : ~MicrotaskWait(tasks[i])
    /\ ClassInitialized(c)

ScanNext ==
    \/ ScanAndRegister
    \/ \E i \in 1..Len(tasks) : ScanResume(i)
    \/ ScanRetryTimer
    \/ \E c \in Classes : ScanClassInitialized(c)

ScanSpec == ScanInit /\ [][ScanNext]_vars

(* ------------------------------------------------------------------ *)
(* One resolve call and the retries that follow it                     *)
(* ------------------------------------------------------------------ *)
\* every class is a decorated service of the scope sc, registered by tryAutoRegister
Services(sc) == [c \in Classes |-> [cat |-> "service", scope |-> sc]]

\* dependency declarations, cyclic or not; classes initialised or still in
\* their temporal dead zone; class names that make an error message look like
\* an initialization error
TermPrograms ==
    { [paramtypes |-> p, hnames |-> n, ctorFail |-> f, meta |-> Services(sc)] :
        p \in {Cycle, Chain}, n \in {{}, {"B"}}, f \in [Classes -> {"ok", "tdz"}],
        sc \in Scopes }

TermInit ==
    /\ NewContainer
    /\ NewRegistry
    /\ NothingCalled
    /\ \E pr \in TermPrograms :
          /\ paramtypes = pr.paramtypes
          /\ hnames = pr.hnames
          /\ ctorFail = pr.ctorFail
          /\ meta = pr.meta
    /\ hooks = NoHooks
    /\ limit = MaxTermSteps

\* the one call of resolve, the first call on the container or the one after
\* setDeferredResolution(false)
ResolveOnce(token, requestId) ==
    /\ steps = 0 \/ (steps = 1 /\ ret.op = "setDeferredResolution")
    /\ Resolve(token, requestId)

\* deferred resolution switched off before the call
DeferredOff ==
    /\ steps = 0
    /\ SetDeferredResolution(FALSE)

TermNext ==
    \/ DeferredOff
    \/ \E token \in Classes : \E requestId \in CallerRids \cup {NoRid} :
          ResolveOnce(token, requestId)
    \/ RetryTimer
    \/ \E c \in Classes : ClassInitialized(c)

TermSpec == TermInit /\ [][TermNext]_vars

(* ------------------------------------------------------------------ *)
(* Properties                                                          *)
(* ------------------------------------------------------------------ *)
IsClassProvider(p, scope) == p.strategy = "class" /\ scopeOf(p) = scope

RequestValue(reqs, requestId, token) ==
    IF requestId \in DOMAIN reqs THEN reqs[requestId][token] ELSE NoValue

\* two calls of resolve in a row, for the same token, that both returned
TwoReturns ==
    /\ ret.op = "resolve" /\ ret.ok
    /\ ret'.op = "resolve" /\ ret'.ok
    /\ ret'.token = ret.token

\* C1: two resolve calls for a token registered with a singleton class provider,
\* with no reset between them, return the identical instance.
C1_SingletonIdentical ==
    [][(/\ TwoReturns
        /\ IsClassProvider(providers[ret.token], "singleton")
        /\ IsClassProvider(providers'[ret.token], "singleton"))
       => ret'.val = ret.val]_vars

\* C1, the part about the cache: only reset() removes or replaces an entry of
\* the singleton cache.
C1_CacheStable ==
    [][\A t \in Tokens :
          (singletons[t] # NoValue /\ ret'.op # "reset") => singletons'[t] = singletons[t]]_vars

C3_RequestIdentical ==
    [][(/\ TwoReturns
        /\ ret'.requestId = ret.requestId /\ ret.requestId # NoRid
        /\ IsClassProvider(providers[ret.token], "request")
        /\ IsClassProvider(providers'[ret.token], "request"))
       => ret'.val = ret.val]_vars

\* C3, for another request id: the instance returned is not the one of a
\* different request.
C3_OtherRequestDistinct ==
    [][(ret'.op = "resolve" /\ ret'.ok /\ IsClassProvider(providers'[ret'.token], "request"))
       => \A r \in DOMAIN requestInstances :
             (r # ret'.requestId /\ requestInstances[r][ret'.token] # NoValue)
                => ret'.val # requestInstances[r][ret'.token]]_vars

\* the caches hold no instance of the classes A and B
NothingCached(tokens) ==
    \A t \in tokens :
       /\ singletons[t] = NoValue
       /\ \A r \in DOMAIN requestInstances : requestInstances[r][t] = NoValue

SelfProvided(t) == providers[t].strategy = "class" /\ providers[t].cls = t

Other(t) == IF t = "A" THEN "B" ELSE "A"

\* C4: when A depends on B and B on A and neither is cached, resolve raises the
\* CircularDependency error, whose path is the stack in entry order followed by
\* the repeated token.
C4_CycleRaises ==
    [][(/\ ret'.op = "resolve" /\ ret'.token \in {"A", "B"}
        /\ paramtypes = Cycle
        /\ SelfProvided("A") /\ SelfProvided("B")
        /\ NothingCached({"A", "B"}))
       => /\ ~ret'.ok
          /\ ret'.err.kind = "circular"
          /\ ret'.err.path = <<ret'.token, Other(ret'.token), ret'.token>>]_vars

\* C5: between calls, and so at the start of every call and of every retry
\* callback, the resolution stack is empty.
C5_StackEmpty == resolutionStack = <<>>

\* a resolve call has just failed on a cycle, two tokens deep
C5_Witness ==
    /\ ret.op = "resolve" /\ ~ret.ok
    /\ ret.err.kind = "circular" /\ Len(ret.err.path) = 3
    /\ resolutionStack = <<>>

HasPromise(args) == \E i \in 1..Len(args) : args[i].k = "promise"

\* C6: resolve returns an instance or a provider value, never a pending
\* computation, to its caller or as a constructor argument.
C6_NeverPending ==
    /\ (ret.op = "resolve" /\ ret.ok) => ret.val.k # "promise"
    /\ \A i \in 1..Len(heap) : ~HasPromise(heap[i].args)

\* a resolution of token t failed with an initialization-order error in this
\* step: a resolve call that was deferred or escalated, or a retry callback
InitFailure(t) ==
    \/ /\ ret'.op = "resolve" /\ ret'.token = t
       /\ \/ ret'.ok /\ ret'.val.k = "promise"
          \/ ~ret'.ok /\ ret'.err.kind = "exhausted"
    \/ /\ ret'.op = "retry" /\ ret'.token = t
       /\ ~ret'.ok /\ isInitializationError(ret'.err)

RetryScheduled(t) ==
    \E i \in 1..Len(timers') : timers'[i].token = t /\ timers'[i] \notin {timers[j] : j \in 1..Len(timers)}

\* C7: with deferred resolution enabled, the first initialization-order failure
\* of a token sets attempts to 1 and schedules a retry, the second sets attempts
\* to 2 and schedules a retry, the third raises the fatal error.
C7_ThreeFailures ==
    [][\A t \in Tokens :
          (enableDeferredResolution /\ InitFailure(t))
          => CASE pendingResolutions[t].attempts = 0 ->
                     pendingResolutions'[t].attempts = 1 /\ RetryScheduled(t)
               [] pendingResolutions[t].attempts = 1 ->
                     pendingResolutions'[t].attempts = 2 /\ RetryScheduled(t)
               [] OTHER ->
                     ~ret'.ok /\ ret'.err.kind = "exhausted"]_vars

NewArgsPending ==
    \E i \in (Len(heap) + 1)..Len(heap') : HasPromise(heap'[i].args)

\* C8 as claimed: with deferred resolution disabled a resolve call throws the
\* error of the failure itself, returns no promise, schedules no retry and
\* leaves the pending table as it was.
C8_PendingUntouched ==
    [][(ret'.op = "resolve" /\ ~enableDeferredResolution)
       => /\ timers' = timers
          /\ promises' = promises
          /\ ret'.val.k # "promise"
          /\ ret'.err.kind # "exhausted"
          /\ ~NewArgsPending
          /\ pendingResolutions' = pendingResolutions]_vars

\* C8: with deferred resolution disabled a resolve call throws the error of the
\* failure itself, returns no promise, schedules no retry, creates no pending
\* record and raises no attempt count; the one change it can make to the pending
\* table is to delete the record of a token that the call auto-registers.
C8_DisabledThrows ==
    [][(ret'.op = "resolve" /\ ~enableDeferredResolution)
       => /\ timers' = timers
          /\ promises' = promises
          /\ ret'.val.k # "promise"
          /\ ret'.err.kind # "exhausted"
          /\ ~NewArgsPending
          /\ \A t \in Tokens :
                \/ pendingResolutions'[t] = pendingResolutions[t]
                \/ /\ pendingResolutions'[t] = NoPending
                   /\ providers[t] = NoProvider /\ providers'[t] # NoProvider]_vars

\* with deferred resolution disabled, a failure that matches the heuristic was thrown
C8_Witness ==
    /\ ret.op = "resolve" /\ ~ret.ok
    /\ ~enableDeferredResolution
    /\ isInitializationError(ret.err)

\* C9: no pending record is created or updated for a CircularDependency failure.
C9_CycleNeverPending ==
    \A t \in Tokens : pendingResolutions[t].lastError.kind # "circular"

\* C10: register sets the provider of its token, deletes the pending record of
\* that token, and leaves the providers and pending records of the other tokens
\* as they were; the next deferred failure of the token counts from 1.
C10_RegisterFrame ==
    [][/\ ret'.op = "register"
          => /\ providers'[ret'.token] = ret'.provider
             /\ pendingResolutions'[ret'.token] = NoPending
             /\ \A u \in Tokens \ {ret'.token} :
                   /\ providers'[u] = providers[u]
                   /\ pendingResolutions'[u] = pendingResolutions[u]
       /\ (ret.op = "register" /\ ret'.op = "resolve" /\ ret'.token = ret.token
           /\ ret'.val.k = "promise")
          => pendingResolutions'[ret'.token].attempts = 1]_vars

\* register was called for a token that had a pending record
C10_Witness ==
    /\ ret.op = "register" /\ ret.log = "previously pending"
    /\ pendingResolutions[ret.token] = NoPending

\* the provider tryAutoRegister registers for a class of a Component Registry category
DeclaredProvider(c) ==
    ClassProvider(c, IF meta[c].cat \in {"configuration", "application"}
                     THEN "singleton" ELSE meta[c].scope)

InCategory(t) == t \in Classes /\ meta[t].cat # "none"

\* C11: when resolve is called for a token with no provider, a class of a
\* Component Registry category gets a class provider with its declared scope
\* and is resolved with it; for any other token the call fails with the
\* Unresolved-Provider error and the provider table is unchanged.
C11_AutoRegisterOrFail ==
    [][(ret'.op = "resolve" /\ providers[ret'.token] = NoProvider)
       => IF InCategory(ret'.token)
          THEN /\ providers'[ret'.token] = DeclaredProvider(ret'.token)
               /\ ~(ret'.err.kind = "unresolved" /\ ret'.err.tok = ret'.token)
          ELSE /\ ~ret'.ok
               /\ ret'.err.kind = "unresolved" /\ ret'.err.tok = ret'.token
               /\ providers' = providers]_vars

\* C11, the half about auto-registration alone.
C11_AutoRegisters ==
    [][(ret'.op = "resolve" /\ providers[ret'.token] = NoProvider /\ InCategory(ret'.token))
       => /\ providers'[ret'.token] = DeclaredProvider(ret'.token)
          /\ ~(ret'.err.kind = "unresolved" /\ ret'.err.tok = ret'.token)]_vars

\* C11, the other half for a call whose failure handleDeferredResolution did not
\* take over: the error is the Unresolved-Provider error of the token and no
\* provider is added.
C11_UnresolvedWhenThrown ==
    [][(ret'.op = "resolve" /\ providers[ret'.token] = NoProvider /\ ~InCategory(ret'.token)
        /\ ~ret'.ok /\ ret'.err.kind # "exhausted")
       => /\ ret'.err.kind = "unresolved" /\ ret'.err.tok = ret'.token
          /\ providers' = providers]_vars

\* the object a resolve of dependency d would hand out in this state
Shared(d) ==
    IF providers[d].strategy = "value" THEN ConstVal(providers[d].val) ELSE singletons[d]

SharedProvider(p) == p.strategy = "value" \/ IsClassProvider(p, "singleton")

\* C12: when resolve returns an instance built by a class provider, every
\* constructor argument injected for a dependency that has a value provider or
\* a singleton class provider is the object resolve of that dependency returns.
C12_SameCollaborator ==
    (ret.op = "resolve" /\ ret.ok /\ ret.val.k = "inst" /\ heap[ret.val.id].cls \in Classes)
    => \A i \in 1..Len(heap[ret.val.id].args) :
          SharedProvider(providers[paramtypes[heap[ret.val.id].cls][i]])
          => heap[ret.val.id].args[i] = Shared(paramtypes[heap[ret.val.id].cls][i])

\* the object is one the call has just made
Fresh(v) ==
    \/ v.k = "inst" /\ v.id > Len(heap) /\ v.id <= Len(heap')
    \/ v.k = "promise" /\ v.id > Len(promises)

\* the lifecycle records of a request id: those of its bucket, none without one
BucketOf(registry, arrs, requestId) ==
    IF requestHas(registry.request, requestId)
    THEN arrs[requestGet(registry.request, requestId)] ELSE <<>>

\* C13: clearRequestInstances(requestId) deletes the instance sub-map of that
\* request id and nothing else: it calls no hook and leaves the Lifecycle
\* Registry, the providers, the singletons, the pending table and the sub-maps
\* of the other request ids as they were; a later resolve of a request-scoped
\* token with an id that has no sub-map returns an object built by that call.
C13_ClearEvictsOnly ==
    [][/\ ret'.op = "clearRequestInstances"
          => /\ invoked' = <<>>
             /\ lifecycleRegistry' = lifecycleRegistry /\ arrays' = arrays
             /\ providers' = providers /\ singletons' = singletons
             /\ pendingResolutions' = pendingResolutions
             /\ DOMAIN requestInstances' = DOMAIN requestInstances \ {ret'.requestId}
             /\ \A r \in DOMAIN requestInstances' : requestInstances'[r] = requestInstances[r]
       /\ (/\ ret'.op = "resolve" /\ ret'.ok
           /\ IsClassProvider(providers'[ret'.token], "request")
           /\ ret'.requestId \notin DOMAIN requestInstances)
          => Fresh(ret'.val)]_vars

\* clearRequestInstances deleted the sub-map of a request that has lifecycle
\* records, while another request has a sub-map
C13_Witness ==
    /\ ret.op = "clearRequestInstances" /\ ret.log = "deleted"
    /\ BucketOf(lifecycleRegistry, arrays, ret.requestId) # <<>>
    /\ DOMAIN requestInstances # {}

\* C14: reset() empties the provider table, the singleton cache and the request
\* cache, calls no hook and leaves every Lifecycle Registry record as it was;
\* after it, resolve of a token of no Component Registry category fails with
\* the Unresolved-Provider error (the provider table is empty after reset
\* whatever was registered before it).
C14_ResetClears ==
    [][/\ ret'.op = "reset"
          => /\ \A t \in Tokens : providers'[t] = NoProvider /\ singletons'[t] = NoValue
             /\ requestInstances' = <<>>
             /\ invoked' = <<>>
             /\ lifecycleRegistry' = lifecycleRegistry /\ arrays' = arrays
       /\ (ret.op = "reset" /\ ret'.op = "resolve" /\ ~InCategory(ret'.token))
          => ~ret'.ok /\ ret'.err.kind = "unresolved"]_vars

\* C14, what reset does by itself.
C14_ResetFrame ==
    [][ret'.op = "reset"
          => /\ \A t \in Tokens : providers'[t] = NoProvider /\ singletons'[t] = NoValue
             /\ requestInstances' = <<>>
             /\ invoked' = <<>>
             /\ lifecycleRegistry' = lifecycleRegistry /\ arrays' = arrays]_vars

Range(q) == {q[i] : i \in 1..Len(q)}

PendingTokens == {t \in Tokens : pendingResolutions[t] # NoPending}

\* C15: resolvePendingDependencies attempts resolve once for each token that
\* was pending when it was called, and for no other; it never throws or
\* rejects, whatever the resolutions do.
C15_SnapshotNeverThrows ==
    [][stepped'.task.op = "resolvePendingDependencies"
       => /\ stepped'.task.at # "failed" /\ ret'.ok
          /\ stepped'.event = "start"
             => /\ Range(stepped'.task.tried \o stepped'.task.rest) = PendingTokens
                /\ Len(stepped'.task.tried \o stepped'.task.rest) = Cardinality(PendingTokens)
          /\ stepped'.event = "resume"
             => stepped'.task.tried \o stepped'.task.rest
                   = tasks[stepped'.by].tried \o tasks[stepped'.by].rest
          /\ stepped'.task.at = "done" => stepped'.task.rest = <<>>]_vars

\* the call awaited a retry that was rejected and returned, and did not
\* attempt a token that became pending while it was suspended
C15_Witness ==
    /\ stepped.task.op = "resolvePendingDependencies"
    /\ stepped.event = "resume" /\ stepped.task.at = "done"
    /\ stepped.task.val.k = "promise" /\ promises[stepped.task.val.id] = "rejected"
    /\ PendingTokens \ Range(stepped.task.tried) # {}

\* the call met the fatal escalation and an immediate throw and returned
C15_WitnessThrown ==
    /\ stepped.task.op = "resolvePendingDependencies"
    /\ stepped.event = "start" /\ stepped.task.at = "done"
    /\ stepped.task.tried # <<>>

LifecycleOps == {"cleanupRequest", "cleanupTransient", "shutdown"}

\* the hook h of the instance applyLifecycle was called with
AppliedHook(h) == hookKind([heap |-> heap'], ret'.val, h)

\* applyLifecycle added a record of its instance to the list of its scope
Recorded ==
    CASE ret'.log = "singleton" ->
            lifecycleRegistry'.singleton = Append(lifecycleRegistry.singleton, ret'.val)
      [] ret'.log = "transient" ->
            lifecycleRegistry'.transient = Append(lifecycleRegistry.transient, ret'.val)
      [] OTHER ->
            BucketOf(lifecycleRegistry', arrays', ret'.requestId)
               = Append(BucketOf(lifecycleRegistry, arrays, ret'.requestId), ret'.val)

\* C16: a failing hook never aborts its caller: applyLifecycle returns normally
\* and records an instance that has onDestroy, also when onInit or
\* onRequestStart throws or rejects; cleanupRequest, cleanupTransient and
\* shutdown never throw or reject.
C16_HooksNeverAbort ==
    [][/\ ret'.op = "applyLifecycle"
          => /\ ret'.ok
             /\ AppliedHook("onDestroy") # "absent" => Recorded
       /\ stepped'.task.op \in LifecycleOps => stepped'.task.at # "failed"]_vars

\* C16 without the synchronous throw: a rejected onInit or onRequestStart is
\* logged and the instance recorded; the cleanups never throw or reject.
C16_RejectionsContained ==
    [][/\ (/\ ret'.op = "applyLifecycle"
           /\ AppliedHook("onInit") # "throws"
           /\ ~(ret'.log = "request" /\ AppliedHook("onRequestStart") = "throws"))
          => /\ ret'.ok
             /\ AppliedHook("onDestroy") # "absent" => Recorded
       /\ stepped'.task.op \in LifecycleOps => stepped'.task.at # "failed"]_vars

\* C17: a cleanupRequest call invokes onDestroy of a record only when it resumes
\* from its await of that record's onRequestEnd and that hook has completed
\* without failing; no record's onDestroy starts earlier.
C17_EndBeforeDestroy ==
    [][\A k \in 1..Len(invoked') :
          (invoked'[k].fn = "cleanupRequest" /\ invoked'[k].hook = "onDestroy")
          => /\ stepped'.event = "resume" /\ k = 1
             /\ tasks[stepped'.by].fn = "cleanupRequest"
             /\ tasks[stepped'.by].at = "onRequestEnd"
             /\ arrays[tasks[stepped'.by].arr][tasks[stepped'.by].idx] = invoked'[k].instance
             /\ hookKind(Life, invoked'[k].instance, "onRequestEnd") \in {"ok", "absent"}]_vars

\* cleanupRequest has called onDestroy of an instance whose onRequestEnd it ran before
C17_Witness ==
    /\ stepped.task.op = "cleanupRequest" /\ stepped.event = "resume"
    /\ invoked # <<>>
    /\ invoked[1].hook = "onDestroy"
    /\ hookKind(Life, invoked[1].instance, "onRequestEnd") = "ok"

\* the step of an async call that ran code of cleanupRequest: the call as it was
\* before the step, and what the step did
Before == tasks[stepped'.by]
After == stepped'.task
Continues ==
    /\ stepped'.event = "resume"
    /\ Before.fn = "cleanupRequest" /\ Before.at \in {"onRequestEnd", "onDestroy"}
Enters ==
    /\ stepped'.event = "start" \/ (stepped'.event = "resume" /\ Before.at = "call")
    /\ After.fn = "cleanupRequest"
    /\ requestHas(lifecycleRegistry.request, After.requestId)
\* the records of the bucket the step has passed: after the one it waited at, up
\* to the one it waits at now, or to the end of the bucket
From == IF Continues THEN Before.idx ELSE 0
To == IF After.at \in {"onRequestEnd", "onDestroy"} THEN After.idx ELSE Len(arrays[After.arr])
Passed ==
    SelectSeq([k \in 1..(To - From) |-> arrays[After.arr][From + k]],
              LAMBDA x : hookKind(Life, x, "onRequestEnd") # "absent")
Ended ==
    LET e == SelectSeq(invoked', LAMBDA x : x.fn = "cleanupRequest" /\ x.hook = "onRequestEnd")
    IN [k \in 1..Len(e) |-> e[k].instance]

\* C18: whatever hook fails, cleanupRequest(id) goes on through the bucket: the
\* onRequestEnd of every record after the one it waited at is invoked, in order,
\* and a record whose onRequestEnd completed gets its onDestroy; when the call
\* completes the bucket of id is gone; a step of cleanupRequest changes no
\* other bucket, no bucket's records, and neither the singleton nor the
\* transient list.
C18_CleanupGoesOn ==
    [][/\ (Continues \/ Enters) => Ended = Passed
       /\ (Continues /\ Before.at = "onRequestEnd"
             /\ hookKind(Life, arrays[Before.arr][Before.idx], "onRequestEnd") # "rejects")
          => /\ invoked' # <<>>
             /\ invoked'[1].hook = "onDestroy"
             /\ invoked'[1].instance = arrays[Before.arr][Before.idx]
       /\ (stepped'.event # "none" /\ After.fn = "cleanupRequest")
          => /\ After.at \in {"done", "call"}
                => ~requestHas(lifecycleRegistry'.request, After.requestId)
             /\ After.at # "failed"
             /\ lifecycleRegistry'.request \in
                   {lifecycleRegistry.request,
                    requestDelete(lifecycleRegistry.request, After.requestId)}
             /\ lifecycleRegistry'.singleton = lifecycleRegistry.singleton
             /\ lifecycleRegistry'.transient = lifecycleRegistry.transient
             /\ arrays' = arrays]_vars

\* cleanupRequest has completed and deleted a bucket of two records although the
\* hook of the first one failed, and it has invoked the hook of the second one
C18_Witness ==
    /\ stepped.task.op = "cleanupRequest" /\ stepped.task.at = "done"
    /\ stepped.task.arr > 0
    /\ Len(arrays[stepped.task.arr]) = 2
    /\ Len(invoked) = 2
    /\ invoked[1].instance = arrays[stepped.task.arr][1]
    /\ hookKind(Life, invoked[1].instance, invoked[1].hook) = "throws"
    /\ invoked[2].instance = arrays[stepped.task.arr][2]
    /\ ~requestHas(lifecycleRegistry.request, stepped.task.requestId)
    /\ lifecycleRegistry.request # <<>>

\* C19: a call of cleanupRequest for a request id that has no bucket returns at
\* once: it invokes no hook, leaves the Lifecycle Registry, its buckets, the
\* instances, the other calls and the container as they are.
C19_NoBucketNoOp ==
    [][(/\ ret'.op = "cleanupRequest"
        /\ stepped'.event = "start"
        /\ ~requestHas(lifecycleRegistry.request, stepped'.task.requestId))
       => /\ invoked' = <<>>
          /\ stepped'.task.at = "done"
          /\ UNCHANGED <<lifecycleRegistry, arrays, tasks, heap, providers, singletons,
                         requestInstances, pendingResolutions, resolutionStack,
                         enableDeferredResolution, timers, promises>>]_vars

\* a call for an id that never had a bucket while another id has one
C19_WitnessNever ==
    /\ ret.op = "cleanupRequest" /\ stepped.event = "start" /\ stepped.task.at = "done"
    /\ invoked = <<>>
    /\ lifecycleRegistry.request # <<>>

\* a call for the id of a bucket that an earlier call has cleaned and deleted:
\* the bucket held an instance of B, which is only ever registered under the
\* caller's first id
C19_Witness ==
    /\ ret.op = "cleanupRequest" /\ stepped.event = "start" /\ stepped.task.at = "done"
    /\ stepped.task.requestId \in CallerRids
    /\ invoked = <<>>
    /\ lifecycleRegistry.request = <<>>
    /\ \E a \in 1..Len(arrays) : \E k \in 1..Len(arrays[a]) : heap[arrays[a][k].id].cls = "B"

\* C20: whenever shutdown invokes the onDestroy of a singleton record, the
\* transient list is empty and no request bucket holds a record.
C20_SingletonsLast ==
    [][\A k \in 1..Len(invoked') :
          invoked'[k].fn = "shutdown"
          => /\ lifecycleRegistry.transient = <<>>
             /\ \A e \in 1..Len(lifecycleRegistry.request) :
                   arrays[lifecycleRegistry.request[e].arr] = <<>>]_vars

\* the three phases of shutdown, in the order of its code
Phase(fn) == CASE fn = "cleanupRequest" -> 1 [] fn = "cleanupTransient" -> 2 [] OTHER -> 3

\* a shutdown call never goes back to an earlier phase, and the hooks a step
\* invokes are those of the phases the step goes through
C20_PhasesInOrder ==
    [][(stepped'.event = "resume" /\ Before.op = "shutdown")
       => /\ Phase(Before.fn) <= Phase(After.fn)
          /\ \A k \in 1..Len(invoked') :
                /\ Phase(Before.fn) <= Phase(invoked'[k].fn)
                /\ Phase(invoked'[k].fn) <= Phase(After.fn)]_vars

DeclaresOtherScope(p) == p # NoProvider /\ p.scope \notin Scopes \cup {"default"}

\* C24: a resolve of a token whose provider declares a scope outside singleton,
\* transient and request throws the UnsupportedScope error, whatever the
\* strategy of the provider, and creates no pending record and no retry.
C24_OtherScopeFatal ==
    [][(ret'.op = "resolve" /\ DeclaresOtherScope(providers[ret'.token]))
       => /\ ~ret'.ok /\ ret'.err.kind = "scope"
          /\ pendingResolutions' = pendingResolutions
          /\ timers' = timers]_vars

\* C24 for class providers only: the switch on the scope is reached and throws
C24_ClassScopeFatal ==
    [][(/\ ret'.op = "resolve"
        /\ DeclaresOtherScope(providers[ret'.token])
        /\ providers[ret'.token].strategy = "class")
       => /\ ~ret'.ok /\ ret'.err.kind = "scope" /\ ret'.err.tok = ret'.token
          /\ pendingResolutions' = pendingResolutions
          /\ timers' = timers /\ promises' = promises]_vars

\* a class provider with such a scope was resolved, and so was a class that
\* depends on one
C24_WitnessClass ==
    /\ ret.op = "resolve" /\ ~ret.ok /\ ret.err.kind = "scope"
    /\ ret.err.tok # ret.token

\* the call or retry callback of this step resolved its token: it returned a
\* value that is no promise and holds none
Resolved ==
    /\ ret'.op \in {"resolve", "retry"} /\ ret'.ok
    /\ ret'.val.k # "promise"
    /\ ret'.val.k = "inst" => ~HasPromise(heap'[ret'.val.id].args)

\* C26: a resolve call or a retry callback that resolves its token leaves no
\* pending record for the token.
C26_SuccessClearsPending ==
    [][Resolved => pendingResolutions'[ret'.token] = NoPending]_vars

\* C26, the parts that hold: a record is created or updated only by a resolve
\* call (made by a caller, or nested in a retry callback) that fails with an
\* initialization-order error while deferred resolution is enabled, and a
\* retry callback that succeeds deletes the record of its token
C26_RecordsOfInitFailures ==
    [][/\ \A t \in Tokens :
             (pendingResolutions'[t] # NoPending /\ pendingResolutions'[t] # pendingResolutions[t])
             => /\ ret'.op \in {"resolve", "retry", "resolvePendingDependencies"}
                /\ enableDeferredResolution
                /\ isInitializationError(pendingResolutions'[t].lastError)
       /\ (ret'.op = "retry" /\ ret'.ok) => pendingResolutions'[ret'.token] = NoPending]_vars

RetryScheduledFor(t) == \E i \in 1..Len(timers) : timers[i].token = t

\* the fatal end of the deferred-resolution machine: resolve raised the
\* error of the exhausted attempts for t
Fatal(t) == ret.op = "resolve" /\ ~ret.ok /\ ret.err.kind = "exhausted" /\ ret.err.tok = t

\* C27: with the timers firing, a token that has a pending record gets rid of
\* it or ends in the fatal error, without any further call by a caller (a run
\* that has used up its steps is left out).
C27_ReachesTerminal ==
    \A t \in Tokens :
       (pendingResolutions[t] # NoPending)
          ~> (pendingResolutions[t] = NoPending \/ Fatal(t) \/ steps = limit)

\* C27, its last sentence: a record that has not used up its attempts is in the
\* pending table only while a retry is scheduled for its token.
C27_NoOrphanRecord ==
    \A t \in Tokens :
       (pendingResolutions[t] # NoPending /\ pendingResolutions[t].attempts < MaxAttempts)
          => RetryScheduledFor(t)

\* C28: two resolve calls in a row for a token registered with a factory
\* provider of scope singleton invoke the factory once: the second call
\* builds nothing and returns the result of the first.
C28_FactoryOnce ==
    [][(/\ TwoReturns
        /\ providers[ret.token] = FactoryProvider("singleton")
        /\ providers'[ret.token] = FactoryProvider("singleton"))
       => /\ heap' = heap
          /\ ret'.val = ret.val]_vars

\* C28, what the code does instead: every resolve of a factory token invokes
\* the factory and caches nothing
C28_FactoryEveryTime ==
    [][(ret'.op = "resolve" /\ providers[ret'.token].strategy = "factory")
       => /\ ret'.ok /\ ret'.val = InstVal(Len(heap) + 1)
          /\ heap' = Append(heap, [cls |-> "factory", args |-> <<>>])
          /\ singletons' = singletons
          /\ requestInstances' = requestInstances]_vars

\* the resolve call of this step was passed a request id and returned an
\* object that it built itself from dependencies that were all resolved
BuiltForRequest ==
    /\ ret'.op = "resolve" /\ ret'.ok /\ ret'.requestId # NoRid
    /\ ret'.val.k = "inst" /\ ret'.val.id > Len(heap)
    /\ heap'[ret'.val.id].cls \in Classes
    /\ ~HasPromise(heap'[ret'.val.id].args)

\* the i-th constructor argument of object o is an instance of a dependency
\* registered with a request class provider, cached under request id r
InjectedFrom(o, i, r) ==
    (IsClassProvider(providers'[paramtypes[o.cls][i]], "request") /\ o.args[i].k = "inst")
    => RequestValue(requestInstances', r, paramtypes[o.cls][i]) = o.args[i]

\* C29: an instance that resolve(T, r) builds gets, for each dependency that
\* is request-scoped, the instance cached under r, whatever the scope of T; no
\* other request id comes into being.
C29_SameRequestId ==
    [][BuiltForRequest
       => /\ \A i \in 1..Len(heap'[ret'.val.id].args) :
                InjectedFrom(heap'[ret'.val.id], i, ret'.requestId)
          /\ genCount' = genCount]_vars

\* C29 for a transient or request-scoped T: the dependencies are resolved with
\* the request id of the call
C29_PropagatedUnlessSingleton ==
    [][(BuiltForRequest /\ scopeOf(providers'[ret'.token]) # "singleton")
       => \A i \in 1..Len(heap'[ret'.val.id].args) :
             InjectedFrom(heap'[ret'.val.id], i, ret'.requestId)]_vars

RECURSIVE Within(_, _, _)
\* object z of heap h is object y or was injected, directly or not, into y
Within(h, z, y) ==
    \/ z = y
    \/ \E k \in 1..Len(h[y].args) : h[y].args[k].k = "inst" /\ Within(h, z, h[y].args[k].id)

\* the first dependency of the class behind the provider of token t
FirstDep(t) == paramtypes[providers[t].cls][1]

\* the resolve call of this step failed because its token's class could not get
\* its first dependency: nothing provides it
FirstDepThrew ==
    /\ ret'.op = "resolve" /\ ~ret'.ok
    /\ providers[ret'.token].strategy = "class"
    /\ paramtypes[providers[ret'.token].cls] # <<>>
    /\ ret'.err.kind = "unresolved"
    /\ ret'.err.tok = FirstDep(ret'.token)
    /\ FirstDep(ret'.token) # ret'.token

\* every object built in a step was built after the objects injected into it;
\* of two injected objects, the one declared later, when the step built it, is
\* built later, unless it was built for the earlier one; whatever the step
\* builds after an injected object that it built for this very parameter, and
\* before the object itself, is built for a dependency declared later. When
\* the first dependency throws, nothing is built, no later dependency is
\* resolved or registered, and no cache holds the component.
InOrder ==
    /\ \A x \in (Len(heap) + 1)..Len(heap') :
          \A i \in 1..Len(heap'[x].args) :
             heap'[x].args[i].k = "inst"
             => /\ heap'[x].args[i].id < x
                /\ \A j \in (i + 1)..Len(heap'[x].args) :
                      (heap'[x].args[j].k = "inst" /\ heap'[x].args[j].id > Len(heap))
                      => \/ heap'[x].args[i].id < heap'[x].args[j].id
                         \/ Within(heap', heap'[x].args[j].id, heap'[x].args[i].id)
                /\ \A z \in (Len(heap) + 1)..(x - 1) :
                      (/\ z > heap'[x].args[i].id
                       /\ heap'[x].args[i].id > Len(heap)
                       /\ \A m \in 1..(i - 1) :
                             heap'[x].args[m].k = "inst"
                             => ~Within(heap', heap'[x].args[i].id, heap'[x].args[m].id))
                      => \E j \in (i + 1)..Len(heap'[x].args) :
                         /\ heap'[x].args[j].k = "inst"
                         /\ Within(heap', z, heap'[x].args[j].id)
    /\ FirstDepThrew
       => /\ heap' = heap
          /\ providers' = providers
          /\ singletons' = singletons
          /\ pendingResolutions' = pendingResolutions
          /\ \A r \in DOMAIN requestInstances' :
                \A t \in Tokens :
                   requestInstances'[r][t] = RequestValue(requestInstances, r, t)

\* every constructor argument of an object built in the step is resolved: an
\* instance or a value, no pending computation
ArgsResolved ==
    \A x \in (Len(heap) + 1)..Len(heap') : ~HasPromise(heap'[x].args)

\* C30: the dependencies of a component are resolved depth-first in
\* declaration order and its constructor is invoked only after all of them
\* have been resolved; when the resolution of a dependency throws, no later
\* dependency is resolved, the constructor is not invoked and no cache entry
\* is written for the component.
C30_DeclarationOrder == [][InOrder /\ ArgsResolved]_vars

\* C30 without the constructors that are invoked with a pending dependency
C30_OrderAmongResolved == [][InOrder]_vars

\* resolve built an A from a B and, after it, a C of its own
C30_Witness ==
    /\ ret.op = "resolve" /\ ret.ok /\ ret.val.k = "inst"
    /\ heap[ret.val.id].cls = "A"
    /\ Len(heap[ret.val.id].args) = 2
    /\ heap[ret.val.id].args[1].k = "inst" /\ heap[ret.val.id].args[2].k = "inst"
    /\ heap[ret.val.id].args[1].id < heap[ret.val.id].args[2].id
    /\ heap[heap[ret.val.id].args[1].id].args # <<>>

\* a resolve failed at the first dependency while the second one could have
\* been registered from its metadata
C30_WitnessThrew ==
    /\ ret.op = "resolve" /\ ~ret.ok /\ ret.err.kind = "unresolved"
    /\ ret.token = "A" /\ ret.err.tok = "B"
    /\ paramtypes["A"] = <<"B", "C">>
    /\ meta["C"].cat = "service"
    /\ providers["A"] # NoProvider /\ providers["C"] = NoProvider

\* applyLifecycle(instance, "request", id) returned
AppliedToRequest ==
    /\ ret'.op = "applyLifecycle" /\ ret'.ok
    /\ ret'.log = "request" /\ ret'.requestId # NoRid

\* C22: applyLifecycle(instance, "request", id) records the instance in the
\* bucket of id when the instance has onRequestEnd or onDestroy, whichever of
\* the two it has.
C22_EachHookRecorded ==
    [][(/\ AppliedToRequest
        /\ \/ AppliedHook("onRequestEnd") # "absent"
           \/ AppliedHook("onDestroy") # "absent")
       => Recorded]_vars

\* C22 as the code has it: the record is made for onDestroy; without onDestroy
\* the bucket is created when missing and gets no record
C22_RecordedForOnDestroy ==
    [][AppliedToRequest
       => IF AppliedHook("onDestroy") # "absent" THEN Recorded
          ELSE /\ BucketOf(lifecycleRegistry', arrays', ret'.requestId)
                     = BucketOf(lifecycleRegistry, arrays, ret'.requestId)
               /\ AppliedHook("onRequestEnd") # "absent"
                  => requestHas(lifecycleRegistry'.request, ret'.requestId)]_vars


\* a handler of the HTTP routes is still running for the request id
Serving(requestId) ==
    \E i \in 1..Len(tasks) : tasks[i].op = "handleRequest" /\ tasks[i].requestId = requestId

\* the request cache or the Lifecycle Registry holds an entry for the request id
HoldsEntry(requestId) ==
    \/ requestId \in DOMAIN requestInstances
    \/ requestHas(lifecycleRegistry.request, requestId)

\* C25: on every exit path of the HTTP handler cleanupRequest(requestId) runs
\* and then clearRequestInstances(requestId), and once the handler has
\* finished neither the request cache nor the Lifecycle Registry holds an
\* entry for its request id.
C25_NothingLeftAfterHandler ==
    \A n \in 1..steps : HoldsEntry(httpRequestId(n)) => Serving(httpRequestId(n))

\* C25, the part the handler itself keeps: the step that ends a handler comes
\* after its cleanupRequest has returned, and leaves no entry for the request id
C25_CleanupThenClear ==
    [][\A i \in 1..Len(tasks) :
          (/\ tasks[i].op = "handleRequest"
           /\ stepped'.by = i
           /\ stepped'.task.at = "done")
          => /\ tasks[i].fn = "cleanupRequest"
             /\ tasks[i].at = "call"
             /\ tasks[i].requestId \notin DOMAIN requestInstances'
             /\ ~requestHas(lifecycleRegistry'.request, tasks[i].requestId)]_vars

\* a handler ended after serving a request-scoped controller
C25_Witness ==
    /\ stepped.task.op = "handleRequest"
    /\ stepped.task.at = "done"
    /\ \E x \in 1..Len(heap) : heap[x].cls = "A"


\* the calls of onInit the step made on the object x
InitCalls(inv, x) ==
    {k \in 1..Len(inv) : inv[k].hook = "onInit" /\ inv[k].instance = [k |-> "inst", id |-> x]}

\* C21: every instance constructed for a component exposing onInit, in every
\* scope and whether resolved directly or built as a constructor dependency,
\* has onInit invoked exactly once, after its construction and before it is
\* injected into or used by another component.
C21_OnInitForEveryInstance ==
    [][\A x \in (Len(heap) + 1)..Len(heap') :
          hooks[heap'[x].cls]["onInit"] # "absent"
          => Cardinality(InitCalls(invoked', x)) = 1]_vars

\* C21 for the instance the HTTP handler resolves itself: a controller built
\* for the request has its onInit invoked once, in the step that built it
C21_OnInitForController ==
    [][(/\ stepped'.event = "start"
        /\ stepped'.task.op = "handleRequest"
        /\ stepped'.task.at = "handler"
        /\ stepped'.task.val.id > Len(heap))
       => Cardinality(InitCalls(invoked', stepped'.task.val.id)) = 1]_vars

\* a handler built its controller and the service injected into it
C21_Witness ==
    /\ stepped.event = "start"
    /\ stepped.task.at = "handler"
    /\ heap[stepped.task.val.id].args # <<>>
    /\ InitCalls(invoked, stepped.task.val.id) # {}


\* the records of the singleton scope hold no instance twice
NoDuplicateRecords(records) ==
    \A i, j \in 1..Len(records) : records[i] = records[j] => i = j

\* the step called onInit on an instance that had a singleton record already
InitAgain ==
    \E k \in 1..Len(invoked') : \E i \in 1..Len(lifecycleRegistry.singleton) :
        /\ invoked'[k].hook = "onInit"
        /\ invoked'[k].instance = lifecycleRegistry.singleton[i]

\* C23: running scanAndRegister again with an unchanged Component Registry
\* leaves the provider table, the singleton cache and the Lifecycle Registry
\* as the first run left them (no duplicate lifecycle record, no value
\* provider replaced by a different value) and invokes no onInit a second
\* time on an existing instance.
C23_Idempotent ==
    [][stepped'.task.op = "scanAndRegister"
       => /\ ~InitAgain
          /\ NoDuplicateRecords(lifecycleRegistry'.singleton)
          /\ \A t \in Tokens : providers[t].strategy = "value" => providers'[t] = providers[t]]_vars

\* C23, the part that holds: a run of the scanner replaces no provider by a
\* different one and no cached singleton by another instance
C23_TablesKept ==
    [][stepped'.task.op = "scanAndRegister"
       => \A t \in Tokens :
             /\ providers[t] # NoProvider => providers'[t] = providers[t]
             /\ singletons[t] # NoValue => singletons'[t] = singletons[t]]_vars

\* a second run of the scanner has gone through its services
C23_Witness ==
    /\ stepped.task.op = "scanAndRegister"
    /\ stepped.task.at = "service"
    /\ singletons["B"] # NoValue
    /\ \E i \in 1..Len(lifecycleRegistry.singleton) :
          singletons["B"] = lifecycleRegistry.singleton[i]
    /\ providers[BeanToken] # NoProvider
    /\ steps > 7


\* the class registered for the token t takes the token u as a constructor argument
DependsOn(t, u) ==
    /\ providers[t].strategy = "class"
    /\ \E i \in 1..Len(extractDependencies(providers[t].cls)) :
          extractDependencies(providers[t].cls)[i] = u

\* the path of a circular-dependency error is a path of the dependency graph
\* that comes back to a token it has gone through
RealCycle(path) ==
    /\ \E i \in 1..(Len(path) - 1) : path[i] = path[Len(path)]
    /\ \A i \in 1..(Len(path) - 1) : DependsOn(path[i], path[i + 1])

\* C31: cycle detection is sound: resolve raises CircularDependency only when
\* the token is being resolved further up the same call path; an acyclic graph
\* in which a token is reached more than once, and a resolve that follows an
\* earlier resolve or retry, successful or failed, never raise it.
C31_CycleDetectionSound ==
    /\ ret.err.kind = "circular" => RealCycle(ret.err.path)
    /\ paramtypes = Chain => ret.err.kind # "circular" /\ ret.err.cause # "circular"

\* a circular dependency was raised by a resolve that followed a deferred one
C31_Witness ==
    /\ ret.op = "resolve"
    /\ ret.err.kind = "circular"
    /\ \E t \in Tokens : pendingResolutions[t] # NoPending

\* with A(B, C) and B(C), the token C was reached twice and A was built
C31_WitnessShared ==
    /\ paramtypes = Chain
    /\ ret.op = "resolve"
    /\ ret.token = "A"
    /\ ret.val.k = "inst"
    /\ Len(heap[ret.val.id].args) = 2


\* C32: every resolve call terminates: for every set of providers and
\* dependency declarations, cyclic or not, with deferred resolution enabled or
\* disabled, the call runs to completion or failure after finitely many steps
\* and the retries it schedules are finitely many. One call, the class
\* initialisations and the retry callbacks never add up to MaxTermSteps steps.
C32_RetriesFinite == steps < limit

\* C32, the part that holds: when no class name makes the message of an error
\* look like an initialization error, the call and all its retries are over
\* two steps before the bound
C32_FiniteForPlainNames == hnames = {} => steps < limit - 1

\* the retries of a call have run out: no timer is left and a promise was rejected
C32_Witness ==
    /\ hnames = {}
    /\ ret.op = "retry"
    /\ ~ret.ok
    /\ timers = <<>>
    /\ \E t \in Tokens : pendingResolutions[t].attempts = MaxAttempts


\* the place of a category in the order of the scanner
Rank(cat) ==
    CASE cat = "configuration" -> 1
      [] cat = "service" -> 2
      [] cat = "processor" -> 3
      [] cat = "controller" -> 4
      [] OTHER -> 5

\* the scanner is through with the class: a configuration source that could be
\* instantiated has its bean registered, any other component has a provider
ScannedClass(c) ==
    IF meta[c].cat = "configuration"
    THEN (ctorFail[c] = "ok" /\ hooks[c]["onInit"] # "throws")
            => providers[BeanToken] = ValueProvider(BeanValue)
    ELSE providers[c] # NoProvider

\* a component of the category cat has been registered by the scanner
Begun(cat) ==
    \E c \in Classes : meta[c].cat = cat /\ cat # "configuration" /\ providers[c] # NoProvider

Component(c) == meta[c].cat \in {"service", "processor", "controller", "application"}

DeclaredScope(c) == IF meta[c].cat = "application" THEN "singleton" ELSE meta[c].scope

\* applyLifecycle has run on the instance: it has a record of the singleton scope
LifecycleApplied(instance) ==
    \E i \in 1..Len(lifecycleRegistry.singleton) : lifecycleRegistry.singleton[i] = instance

\* a run of scanAndRegister has just returned
ScanCompleted == stepped.task.op = "scanAndRegister" /\ stepped.task.at = "done"

\* C34: after scanAndRegister completes, every service, processor and
\* controller has a class provider with its declared scope, every
\* singleton-scoped one whose construction succeeded (and the application
\* root) is in the singleton cache with its lifecycle applied, and the
\* transient and request-scoped ones are registered but not resolved.
C34_RegisteredAndApplied ==
    ScanCompleted =>
        \A c \in Classes : Component(c) =>
            /\ providers[c] = ClassProvider(c, DeclaredScope(c))
            /\ (DeclaredScope(c) = "singleton" /\ \E x \in 1..Len(heap) : heap[x].cls = c)
               => /\ singletons[c].k = "inst"
                  /\ hooks[c]["onDestroy"] # "absent" => LifecycleApplied(singletons[c])
            /\ DeclaredScope(c) # "singleton" => \A x \in 1..Len(heap) : heap[x].cls # c

\* C34, the part that holds: after a run every component has its class
\* provider, and the transient and request-scoped ones have not been built
C34_Registered ==
    ScanCompleted =>
        \A c \in Classes : Component(c) =>
            /\ providers[c] = ClassProvider(c, DeclaredScope(c))
            /\ DeclaredScope(c) # "singleton" => \A x \in 1..Len(heap) : heap[x].cls # c

\* a run has returned with a singleton resolved and its lifecycle applied
C34_Witness ==
    /\ ScanCompleted
    /\ singletons["B"].k = "inst"
    /\ LifecycleApplied(singletons["B"])


\* the records of the bucket the step is through with: from the one the call
\* waited at, or the first one, up to the one before the record it waits at now
Completed ==
    {k \in 1..Len(arrays[After.arr]) :
        /\ k >= (IF Continues THEN Before.idx ELSE 1)
        /\ After.at \in {"onRequestEnd", "onDestroy"} => k < After.idx}

\* the onDestroy calls the step made on the k-th record of the bucket
DestroyCalls(k) ==
    {n \in 1..Len(invoked') :
        /\ invoked'[n].hook = "onDestroy"
        /\ invoked'[n].fn = "cleanupRequest"
        /\ invoked'[n].instance = arrays[After.arr][k]}

\* C35: cleanupRequest(id) invokes onDestroy exactly once for every record of
\* the bucket of id, also for a record whose onRequestEnd fails: every record
\* the call is through with had its onDestroy invoked, in this step or in the
\* one the call waited for.
C35_DestroyForEveryRecord ==
    [][(Continues \/ Enters)
       => \A k \in Completed :
             IF Continues /\ k = Before.idx /\ Before.at = "onDestroy"
             THEN DestroyCalls(k) = {}
             ELSE Cardinality(DestroyCalls(k)) = 1]_vars

\* C35 for the records whose onRequestEnd does not fail: the call is through
\* with such a record only after it invoked its onDestroy, once
C35_DestroyAfterCleanEnd ==
    [][(Continues \/ Enters)
       => \A k \in Completed :
             hookKind(Life, arrays[After.arr][k], "onRequestEnd") \in {"ok", "absent"}
             => IF Continues /\ k = Before.idx /\ Before.at = "onDestroy"
                THEN DestroyCalls(k) = {}
                ELSE Cardinality(DestroyCalls(k)) = 1]_vars


\* the suspended cleanupRequest call j has invoked the hook h of the k-th
\* record of its bucket
HasInvoked(j, h, k) ==
    /\ hookKind(Life, arrays[tasks[j].arr][k], h) # "absent"
    /\ IF h = "onRequestEnd"
       THEN k < tasks[j].idx \/ (k = tasks[j].idx /\ tasks[j].at \in {"onRequestEnd", "onDestroy"})
       ELSE \/ k = tasks[j].idx /\ tasks[j].at = "onDestroy"
            \/ k < tasks[j].idx
               /\ hookKind(Life, arrays[tasks[j].arr][k], "onRequestEnd") \in {"ok", "absent"}

\* the step of a cleanupRequest call invokes a hook of a record that another
\* call, suspended in the same bucket, has invoked already
InvokedAgain ==
    \E n \in 1..Len(invoked') : \E j \in 1..Len(tasks) :
        /\ invoked'[n].fn = "cleanupRequest"
        /\ j # invoked'[n].by
        /\ tasks[j].fn = "cleanupRequest"
        /\ tasks[j].arr = After.arr
        /\ \E k \in 1..Len(arrays[After.arr]) :
              /\ arrays[After.arr][k] = invoked'[n].instance
              /\ HasInvoked(j, invoked'[n].hook, k)

\* C36: teardown hooks run at most once per lifecycle record under every
\* interleaving: when two cleanups of the same request id overlap, no record's
\* onRequestEnd or onDestroy is invoked twice.
C36_HooksAtMostOnce ==
    [][(After.fn = "cleanupRequest" /\ After.arr > 0
        /\ NoDuplicateRecords(arrays[After.arr]))
       => ~InvokedAgain]_vars

\* C36 within one call: a step of cleanupRequest invokes no hook of a record twice
C36_OncePerCall ==
    [][(After.fn = "cleanupRequest" /\ After.arr > 0
        /\ NoDuplicateRecords(arrays[After.arr]))
       => \A n, m \in 1..Len(invoked') :
             (invoked'[n].hook = invoked'[m].hook /\ invoked'[n].instance = invoked'[m].instance)
             => n = m]_vars


\* a call of resolve threw
ResolveFailed == ret'.op = "resolve" /\ ~ret'.ok

\* C37: a resolve call that fails leaves the state of the Resolution Engine as
\* it was before the call: the provider table, the singleton cache and the
\* request cache are unchanged.
C37_FailureLeavesState ==
    [][ResolveFailed
       => /\ providers' = providers
          /\ singletons' = singletons
          /\ requestInstances' = requestInstances]_vars

\* C37 for the token of the call: a resolve that throws caches no instance for
\* its token, in the singleton cache or in a request sub-map
C37_FailedTokenNotCached ==
    [][ResolveFailed
       => /\ singletons'[ret'.token] = singletons[ret'.token]
          /\ \A r \in DOMAIN requestInstances' :
                requestInstances'[r][ret'.token] # NoValue
                => /\ r \in DOMAIN requestInstances
                   /\ requestInstances[r][ret'.token] = requestInstances'[r][ret'.token]]_vars


\* the request id was made up by the container, no caller passed it
Generated(r) == r.src = "generated"

\* C38: every sub-map of the request cache is keyed by a request id that a
\* caller passed to resolve, so that the cache is empty once
\* clearRequestInstances has been called for every such id, also when
\* request-scoped tokens were resolved without a request id or as dependencies
\* of a singleton.
C38_KeysFromCallers ==
    \A r \in DOMAIN requestInstances : ~Generated(r)

\* C38 for the ids of callers: clearRequestInstances(id) removes the sub-map of
\* id, and a sub-map under a caller's id comes from a resolve or a retry with that id
C38_CallerKeysCleared ==
    [][/\ ret'.op = "clearRequestInstances" => ret'.requestId \notin DOMAIN requestInstances'
       /\ \A r \in DOMAIN requestInstances' \ DOMAIN requestInstances :
             ~Generated(r) => ret'.op \in {"resolve", "retry"} /\ ret'.requestId = r]_vars


\* the provider table, the singleton cache and the request cache are empty
TablesEmpty ==
    /\ \A t \in Tokens : providers[t] = NoProvider /\ singletons[t] = NoValue
    /\ requestInstances = <<>>

\* C39: after reset() the provider table, the singleton cache and the request
\* cache stay empty until the next register or resolve call: a deferred retry
\* that was scheduled before the reset and fires after it adds no provider and
\* caches no instance.
C39_RetryKeepsEmpty ==
    [][(TablesEmpty /\ ret'.op = "retry") => TablesEmpty']_vars

\* C39 for programs without decorated classes: a retry that finds the tables
\* empty registers and caches nothing
C39_UndecoratedStayEmpty ==
    [][(/\ TablesEmpty
        /\ ret'.op = "retry"
        /\ \A c \in Classes : meta[c].cat = "none")
       => TablesEmpty']_vars

\* reset() has emptied the tables while a retry is scheduled
C39_Witness ==
    /\ ret.op = "reset"
    /\ TablesEmpty
    /\ timers # <<>>

(* ---- C40: register leaves the caches alone ---- *)

\* the token of the call that just returned has a cached singleton
CachedToken(token) == token \in Tokens /\ singletons[token] # NoValue

\* C40: register(token, provider) leaves the singleton cache and every request
\* sub-map unchanged; and a resolve of a token that has a cached singleton and
\* whose current provider is a class provider of singleton scope returns the
\* cached instance, whatever providers were registered for it in between.
C40_RegisterKeepsCaches ==
    [][/\ ret'.op = "register"
          => /\ singletons' = singletons
             /\ requestInstances' = requestInstances
       /\ (/\ ret'.op = "resolve"
           /\ CachedToken(ret'.token)
           /\ IsClassProvider(providers[ret'.token], "singleton"))
          => ret'.ok /\ ret'.val = singletons[ret'.token]]_vars

\* C40 as stated: register leaves the caches unchanged, and every resolve of a
\* token with a cached singleton returns that instance, whichever provider the
\* token has been given since.
C40_OverwrittenKeepsInstance ==
    [][/\ ret'.op = "register"
          => /\ singletons' = singletons
             /\ requestInstances' = requestInstances
       /\ (ret'.op = "resolve" /\ CachedToken(ret'.token))
          => ret'.ok /\ ret'.val = singletons[ret'.token]]_vars

\* register has just overwritten the provider of a token whose singleton is
\* cached, and the instance is still in the cache
C40_Witness ==
    /\ ret.op = "register"
    /\ CachedToken(ret.token)
    /\ singletons[ret.token].k = "inst"
    /\ ret.provider # ClassProvider(ret.token, "singleton")

====
